---- MODULE Spec2Model ----
(***************************************************************************)
(* Occupancy store and conflict resolver of the weekly timetable           *)
(* (SchedulerWindow.placed, _add_course_internal,                          *)
(* remove_course_from_schedule) of _reference_logic/main_window.py.        *)
(***************************************************************************)
EXTENDS Integers, Sequences, FiniteSets, TLC

(***************************************************************************)
(* Bounds of the model.  The program's grid has 7 days and 25 half-hour    *)
(* slots; the model keeps the first NumDays days and the slots 0..MaxSlot. *)
(***************************************************************************)
NumDays == 2
MaxSlot == 2
MaxAuto == 1

(***************************************************************************)
(* Time grid (core/config.py).  A time is the string "HH:MM", written as   *)
(* the pair <<HH, MM>>; a slot is a time of the form 07:00 + 30*i.         *)
(***************************************************************************)
START_MINUTES == 420
SLOT_MINUTES == 30
DEFAULT_PRIORITY == 999

\* f"{hh:02d}:{mm:02d}" of a number of minutes after midnight
TimeString(m) == <<m \div 60, m % 60>>

EXTENDED_TIME_SLOTS ==
    [i \in 1..(MaxSlot + 1) |-> TimeString(START_MINUTES + SLOT_MINUTES * (i - 1))]

DAYS == 1..NumDays

\* EXTENDED_TIME_SLOTS.index(t): the 0-based index of t, -1 for ValueError
SlotIndex(t) ==
    IF \E i \in 1..Len(EXTENDED_TIME_SLOTS) : EXTENDED_TIME_SLOTS[i] = t
    THEN (CHOOSE i \in 1..Len(EXTENDED_TIME_SLOTS) : EXTENDED_TIME_SLOTS[i] = t) - 1
    ELSE -1

SlotTime(i) == TimeString(START_MINUTES + SLOT_MINUTES * i)

PARITY_ODD == "odd"
PARITY_EVEN == "even"
PARITY_NONE == ""
Parities == {PARITY_NONE, PARITY_ODD, PARITY_EVEN}

Sess(d, s, e, p) == [day |-> d, start |-> SlotTime(s), end |-> SlotTime(e), parity |-> p]

NoSess == [day |-> 0, start |-> <<0, 0>>, end |-> <<0, 0>>, parity |-> PARITY_NONE]

\* every aligned session of the modelled part of the grid
SessionPool ==
    {Sess(d, iv[1], iv[2], p) :
        d \in DAYS,
        iv \in {w \in (0..MaxSlot) \X (0..MaxSlot) : w[1] < w[2]},
        p \in Parities}

(***************************************************************************)
(* The catalog snapshot COURSES: two fixed courses and one course X with   *)
(* a single session drawn from SessionPool when the program starts.        *)
(*   A  odd   day 1 [0,2)  and  no parity  day 2 [0,1)                     *)
(*   B  even  day 1 [0,2)                                                  *)
(***************************************************************************)
CourseKeys == {"A", "B", "X"}

FixedSchedule(k) ==
    CASE k = "A" -> <<Sess(1, 0, 2, PARITY_ODD), Sess(2, 0, 1, PARITY_NONE)>>
      [] k = "B" -> <<Sess(1, 0, 2, PARITY_EVEN)>>
      [] OTHER -> <<>>

Catalogs ==
    {[k \in CourseKeys |-> IF k = "X" THEN <<x>> ELSE FixedSchedule(k)] : x \in SessionPool}

\* the catalogs in which X has a first session on day 2 [1,2) before the drawn one
CatalogsTwo ==
    {[k \in CourseKeys |-> IF k = "X" THEN <<Sess(2, 1, 2, PARITY_NONE), x>>
                                      ELSE FixedSchedule(k)] : x \in SessionPool}

\* the catalogs in which X has two sessions in one slot, of any two parities
CatalogsSame ==
    {[k \in CourseKeys |-> IF k = "X" THEN <<x, [x EXCEPT !.parity = p]>>
                                      ELSE FixedSchedule(k)] :
        x \in SessionPool, p \in Parities}

VARIABLES COURSES, placed, auto_select_list, last

vars == <<COURSES, placed, auto_select_list, last>>

(***************************************************************************)
(* self.placed: a dict keyed by the origin cell (row, col), kept here in   *)
(* insertion order.  A single entry holds 'course'; a dual entry holds the *)
(* odd_data / even_data of its SimpleDualCourseWidget ('courses' is        *)
(* [odd.course_key, even.course_key]).                                     *)
(***************************************************************************)
NoData == [course_key |-> "", session |-> NoSess]

SingleEntry(pos, k, span) ==
    [pos |-> pos, rows |-> span, type |-> "single", course |-> k,
     odd |-> NoData, even |-> NoData]

\* a dual entry with its two slots exchanged
DualEntry_swapped(pos, odd_data, even_data, span) ==
    [pos |-> pos, rows |-> span, type |-> "dual", course |-> "",
     odd |-> even_data, even |-> odd_data]

DualEntry(pos, odd_data, even_data, span) ==
    [pos |-> pos, rows |-> span, type |-> "dual", course |-> "",
     odd |-> odd_data, even |-> even_data]

courses_list(info) == <<info.odd.course_key, info.even.course_key>>

InCourses(k, info) == k = info.odd.course_key \/ k = info.even.course_key

HasPos(p, pos) == \E i \in 1..Len(p) : p[i].pos = pos

At(p, pos) == p[CHOOSE i \in 1..Len(p) : p[i].pos = pos]

\* del self.placed[pos]
Del(p, pos) == SelectSeq(p, LAMBDA e : e.pos # pos)

\* self.placed[pos] = entry : an existing key keeps its place in the dict
Put(p, entry) ==
    IF HasPos(p, entry.pos)
    THEN [i \in 1..Len(p) |-> IF p[i].pos = entry.pos THEN entry ELSE p[i]]
    ELSE Append(p, entry)

\* SimpleDualCourseWidget.get_other_course_data
get_other_course_data(info, removed_course_key) ==
    IF removed_course_key = info.odd.course_key THEN info.even ELSE info.odd

\* remove_placed_by_start
remove_placed_by_start(p, start_tuple) == Del(p, start_tuple)

(***************************************************************************)
(* Removal.                                                                *)
(***************************************************************************)
\* the has_other_sessions scan of remove_course_from_schedule and of
\* _remove_course_sessions_except_cell (except_cell = <<>> for the former)
has_other_sessions(p, pos, other_course_key, except_cell) ==
    \E i \in 1..Len(p) :
        /\ p[i].pos # except_cell
        /\ p[i].pos # pos
        /\ IF p[i].type = "dual" THEN InCourses(other_course_key, p[i])
                                 ELSE p[i].course = other_course_key

\* a removal that converts no dual cell
ToConvert_none(p, course_key, except_cell) == <<>>

\* positions of the dual cells of course_key whose other course has further cells
ToConvert(p, course_key, except_cell) ==
    LET keep(e) == /\ e.pos # except_cell
                   /\ e.type = "dual"
                   /\ InCourses(course_key, e)
                   /\ has_other_sessions(p, e.pos,
                          get_other_course_data(e, course_key).course_key, except_cell)
        sel == SelectSeq(p, keep)
    IN [i \in 1..Len(sel) |-> sel[i].pos]

\* a removal that stops after the first cell it finds
ToRemove_first_only(p, course_key, except_cell) ==
    LET keep(e) == /\ e.pos # except_cell
                   /\ IF e.type = "dual"
                      THEN /\ InCourses(course_key, e)
                           /\ ~has_other_sessions(p, e.pos,
                                  get_other_course_data(e, course_key).course_key, except_cell)
                      ELSE e.course = course_key
        sel == SelectSeq(p, keep)
    IN IF sel = <<>> THEN <<>> ELSE <<sel[1].pos>>

\* positions removed as a whole
ToRemove(p, course_key, except_cell) ==
    LET keep(e) == /\ e.pos # except_cell
                   /\ IF e.type = "dual"
                      THEN /\ InCourses(course_key, e)
                           /\ ~has_other_sessions(p, e.pos,
                                  get_other_course_data(e, course_key).course_key, except_cell)
                      ELSE e.course = course_key
        sel == SelectSeq(p, keep)
    IN [i \in 1..Len(sel) |-> sel[i].pos]

RECURSIVE RemoveStarts(_, _)
RemoveStarts(p, starts) ==
    IF starts = <<>> THEN p
    ELSE RemoveStarts(IF HasPos(p, Head(starts)) THEN remove_placed_by_start(p, Head(starts)) ELSE p,
                      Tail(starts))

RECURSIVE remove_course_from_dual_widget(_, _, _)
RECURSIVE ConvertAll(_, _, _)
RECURSIVE remove_course_sessions_except_cell(_, _, _)

\* the dual widget is named by the cell it was found in; a widget that is no
\* longer in self.placed is "Could not find dual widget position"
remove_course_from_dual_widget(p, course_key, widget_position) ==
    IF ~(HasPos(p, widget_position) /\ At(p, widget_position).type = "dual")
    THEN p
    ELSE LET info == At(p, widget_position)
             other == get_other_course_data(info, course_key)
             p1 == Del(p, widget_position)
         IN IF other.course_key \notin DOMAIN COURSES
            THEN p1
            ELSE remove_course_sessions_except_cell(
                     Append(p1, SingleEntry(widget_position, other.course_key, info.rows)),
                     course_key, widget_position)

ConvertAll(p, course_key, to_convert) ==
    IF to_convert = <<>> THEN p
    ELSE ConvertAll(remove_course_from_dual_widget(p, course_key, Head(to_convert)),
                    course_key, Tail(to_convert))

remove_course_sessions_except_cell(p, course_key, except_cell) ==
    RemoveStarts(ConvertAll(p, course_key, ToConvert(p, course_key, except_cell)),
                 ToRemove(p, course_key, except_cell))

remove_course_from_schedule(p, course_key) ==
    RemoveStarts(ConvertAll(p, course_key, ToConvert(p, course_key, <<>>)),
                 ToRemove(p, course_key, <<>>))

(***************************************************************************)
(* Priority list (auto_select_list): items of (UserRole, UserRole + 1).    *)
(***************************************************************************)
RECURSIVE PriorityIn(_, _)
PriorityIn(items, course_key) ==
    IF items = <<>> THEN DEFAULT_PRIORITY
    ELSE IF Head(items).key = course_key THEN Head(items).priority
    ELSE PriorityIn(Tail(items), course_key)

get_course_priority(course_key) == PriorityIn(auto_select_list, course_key)

(***************************************************************************)
(* _add_course_internal: the placements of the candidate.                  *)
(***************************************************************************)
Max(a, b) == IF a >= b THEN a ELSE b

\* placements that give up the whole course at the first unusable session
PlacementsOf_all_or_nothing(schedule) ==
    IF \E i \in 1..Len(schedule) :
          \/ schedule[i].day \notin DAYS
          \/ SlotIndex(schedule[i].start) = -1
          \/ SlotIndex(schedule[i].end) = -1
    THEN <<>>
    ELSE [i \in 1..Len(schedule) |->
             [srow |-> SlotIndex(schedule[i].start), col |-> schedule[i].day - 1,
              span |-> Max(1, SlotIndex(schedule[i].end) - SlotIndex(schedule[i].start)),
              sess |-> schedule[i]]]

RECURSIVE PlacementsOf(_)
PlacementsOf(schedule) ==
    IF schedule = <<>> THEN <<>>
    ELSE LET sess == Head(schedule)
             srow == SlotIndex(sess.start)
             erow == SlotIndex(sess.end)
         IN IF sess.day \notin DAYS \/ srow = -1 \/ erow = -1
            THEN PlacementsOf(Tail(schedule))
            ELSE <<[srow |-> srow, col |-> sess.day - 1,
                    span |-> Max(1, erow - srow), sess |-> sess]>>
                 \o PlacementsOf(Tail(schedule))

is_compatible(sess_parity, existing_parity) ==
    \/ sess_parity = PARITY_EVEN /\ existing_parity = PARITY_ODD
    \/ sess_parity = PARITY_ODD /\ existing_parity = PARITY_EVEN

\* the session of a schedule on the given day that starts at srow and ends at
\* srow + span (its index, 0 when there is none)
RECURSIVE MatchFrom(_, _, _, _, _)
MatchFrom(schedule, i, day, srow, span) ==
    IF i > Len(schedule) THEN 0
    ELSE IF /\ schedule[i].day = day
            /\ SlotIndex(schedule[i].start) = srow
            /\ SlotIndex(schedule[i].end) # -1
            /\ SlotIndex(schedule[i].end) = srow + span
         THEN i
         ELSE MatchFrom(schedule, i + 1, day, srow, span)

MatchingSession(schedule, day, srow, span) == MatchFrom(schedule, 1, day, srow, span)

AddConflict(acc, k) == [acc EXCEPT !.conflicts = @ \cup {k}]

SetCompat(acc, pos, rec) ==
    [acc EXCEPT !.compat = [q \in (DOMAIN acc.compat) \cup {pos} |->
                                IF q = pos THEN rec ELSE acc.compat[q]]]

EmptyCompat == [q \in {} |-> 0]

\* a first check that does not pass over the widget of the course itself
FirstCheck_any_course(p, course_key, pl, acc) ==
    LET pos == <<pl.srow, pl.col>> IN
    IF ~HasPos(p, pos) THEN acc
    ELSE LET w == At(p, pos) IN
         IF w.type = "dual" THEN AddConflict(acc, "dual_widget")
         ELSE IF w.course \notin DOMAIN COURSES THEN AddConflict(acc, w.course)
         ELSE LET m == MatchingSession(COURSES[w.course], pl.sess.day, pl.srow, pl.span) IN
              IF m = 0 THEN AddConflict(acc, w.course)
              ELSE IF is_compatible(pl.sess.parity, COURSES[w.course][m].parity)
                   THEN SetCompat(acc, pos,
                            [existing |-> w, existing_session |-> COURSES[w.course][m],
                             existing_widget |-> TRUE])
                   ELSE AddConflict(acc, w.course)

\* FIRST: the widget in the origin cell of one placement
FirstCheck(p, course_key, pl, acc) ==
    LET pos == <<pl.srow, pl.col>> IN
    IF ~HasPos(p, pos) THEN acc
    ELSE LET w == At(p, pos) IN
         IF w.type = "dual"
         THEN IF InCourses(course_key, w) THEN acc ELSE AddConflict(acc, "dual_widget")
         ELSE IF w.course = course_key THEN acc
         ELSE IF w.course \notin DOMAIN COURSES THEN AddConflict(acc, w.course)
         ELSE LET m == MatchingSession(COURSES[w.course], pl.sess.day, pl.srow, pl.span) IN
              IF m = 0 THEN AddConflict(acc, w.course)
              ELSE IF is_compatible(pl.sess.parity, COURSES[w.course][m].parity)
                   THEN SetCompat(acc, pos,
                            [existing |-> w, existing_session |-> COURSES[w.course][m],
                             existing_widget |-> TRUE])
                   ELSE AddConflict(acc, w.course)

RECURSIVE FirstPhase(_, _, _, _)
FirstPhase(p, course_key, pls, acc) ==
    IF pls = <<>> THEN acc
    ELSE FirstPhase(p, course_key, Tail(pls), FirstCheck(p, course_key, Head(pls), acc))

\* the scan of an existing course's sessions for one overlapping the placement:
\* "none", "error" (an index lookup failed), or the index of the session
RECURSIVE OverlapFrom(_, _, _)
OverlapFrom(schedule, i, pl) ==
    IF i > Len(schedule) THEN 0
    ELSE IF schedule[i].day # pl.sess.day THEN OverlapFrom(schedule, i + 1, pl)
    ELSE IF SlotIndex(schedule[i].start) = -1 \/ SlotIndex(schedule[i].end) = -1 THEN -1
    ELSE IF ~(pl.srow + pl.span <= SlotIndex(schedule[i].start)
              \/ SlotIndex(schedule[i].end) <= pl.srow)
         THEN i
         ELSE OverlapFrom(schedule, i + 1, pl)

\* SECOND: one placement against one entry of self.placed
SecondCheck(course_key, pl, info, acc) ==
    LET pos == <<pl.srow, pl.col>>
        is_same_course == IF info.type = "dual" THEN InCourses(course_key, info)
                                                ELSE info.course = course_key
        existing_course_key == IF info.type = "dual" THEN courses_list(info)[1] ELSE info.course
    IN
    IF info.pos[2] # pl.col \/ is_same_course THEN acc
    ELSE IF pl.srow + pl.span <= info.pos[1] \/ info.pos[1] + info.rows <= pl.srow THEN acc
    ELSE IF existing_course_key \notin DOMAIN COURSES THEN acc
    ELSE LET m == OverlapFrom(COURSES[existing_course_key], 1, pl) IN
         IF m = -1 THEN acc
         ELSE IF m = 0 THEN AddConflict(acc, existing_course_key)
         ELSE IF is_compatible(pl.sess.parity, COURSES[existing_course_key][m].parity)
              THEN IF pos \notin DOMAIN acc.compat /\ existing_course_key # course_key
                   THEN SetCompat(acc, pos,
                            [existing |-> info,
                             existing_session |-> COURSES[existing_course_key][m],
                             existing_widget |-> FALSE])
                   ELSE acc
              ELSE AddConflict(acc, existing_course_key)

RECURSIVE SecondScan(_, _, _, _, _)
SecondScan(p, j, course_key, pl, acc) ==
    IF j > Len(p) THEN acc
    ELSE SecondScan(p, j + 1, course_key, pl, SecondCheck(course_key, pl, p[j], acc))

RECURSIVE SecondPhase(_, _, _, _)
SecondPhase(p, course_key, pls, acc) ==
    IF pls = <<>> THEN acc
    ELSE SecondPhase(p, course_key, Tail(pls),
             IF <<Head(pls).srow, Head(pls).col>> \in DOMAIN acc.compat
             THEN acc
             ELSE SecondScan(p, 1, course_key, Head(pls), acc))

\* conflicts and compatible_slots of the candidate against the store p
Analyse(p, course_key) ==
    LET pls == IF course_key \in DOMAIN COURSES THEN PlacementsOf(COURSES[course_key])
                                                ELSE <<>> IN
    SecondPhase(p, course_key, pls,
        FirstPhase(p, course_key, pls, [conflicts |-> {}, compat |-> EmptyCompat]))

(***************************************************************************)
(* _add_course_internal: writing the candidate's sessions.                 *)
(***************************************************************************)
\* one iteration of "for (slot_key, srow, col, span, sess) in slot_keys";
\* failed is the KeyError of COURSES[existing_info.get('course')]
WriteOne(p, course_key, pl, compat) ==
    LET pos == <<pl.srow, pl.col>> IN
    IF pos \notin DOMAIN compat
    THEN [placed |-> Put(p, SingleEntry(pos, course_key, pl.span)), failed |-> FALSE]
    ELSE
    LET compat_info == compat[pos]
        existing_info == compat_info.existing
        new_data == [course_key |-> course_key, session |-> pl.sess]
    IN
    IF existing_info.type = "dual" \/ existing_info.course \notin DOMAIN COURSES
    THEN [placed |-> p, failed |-> TRUE]
    ELSE
    LET ex_data == [course_key |-> existing_info.course,
                    session |-> compat_info.existing_session]
        new_is_odd == pl.sess.parity = PARITY_ODD
        odd_data == IF new_is_odd THEN new_data ELSE ex_data
        even_data == IF new_is_odd THEN ex_data ELSE new_data
        has_widget == HasPos(p, pos)
        existing_dual_widget == has_widget /\ At(p, pos).type = "dual"
        existing_single_info ==
            \/ has_widget /\ At(p, pos).type # "dual"
            \/ ~has_widget /\ compat_info.existing_widget
        p1 == Del(p, pos)
        sched == COURSES[existing_info.course]
        m == MatchingSession(sched, compat_info.existing_session.day, pl.srow, pl.span)
        existing_sess == IF m # 0 THEN sched[m] ELSE compat_info.existing_session
        ex_data2 == [course_key |-> existing_info.course, session |-> existing_sess]
        existing_is_odd == existing_sess.parity = PARITY_ODD
    IN
    IF existing_dual_widget
    THEN [placed |-> Append(p1, DualEntry(pos, odd_data, even_data, pl.span)),
          failed |-> FALSE]
    ELSE IF existing_single_info /\ existing_info.course # ""
    THEN [placed |-> Append(p1, DualEntry(pos,
                         IF existing_is_odd THEN ex_data2 ELSE new_data,
                         IF existing_is_odd THEN new_data ELSE ex_data2, pl.span)),
          failed |-> FALSE]
    ELSE [placed |-> Append(p1, DualEntry(pos, odd_data, even_data, pl.span)),
          failed |-> FALSE]

RECURSIVE WriteAll(_, _, _, _)
WriteAll(p, course_key, pls, compat) ==
    IF pls = <<>> THEN [placed |-> p, failed |-> FALSE]
    ELSE LET r == WriteOne(p, course_key, Head(pls), compat) IN
         IF r.failed THEN r ELSE WriteAll(r.placed, course_key, Tail(pls), compat)

\* "for conflicting_course_key in conflicting_courses: remove_course_from_schedule"
RECURSIVE EvictAll(_, _)
EvictAll(p, order) ==
    IF order = <<>> THEN p
    ELSE EvictAll(remove_course_from_schedule(p, Head(order)), Tail(order))

\* the orders in which a Python set can be iterated
Orders(S) == {f \in [1..Cardinality(S) -> S] : \A i, j \in DOMAIN f : i # j => f[i] # f[j]}

Answers == {"Yes", "No", "Cancel"}

conflicting_courses(conflicts) == conflicts \ {"dual_widget", "unknown"}

higher_priority_conflicts(conflicts, course_key) ==
    {k \in conflicts : get_course_priority(k) < get_course_priority(course_key)}

\* the whole of _add_course_internal on the store p
add_course_internal(p, course_key, ask_on_conflict, answer, order) ==
    IF course_key \notin DOMAIN COURSES
    THEN [placed |-> p, outcome |-> "not_found", conflicts |-> {}, merges |-> {}]
    ELSE
    LET an == Analyse(p, course_key)
        pls == PlacementsOf(COURSES[course_key])
        res(w) == [placed |-> w.placed,
                   outcome |-> IF w.failed THEN "failed" ELSE "placed",
                   conflicts |-> an.conflicts, merges |-> DOMAIN an.compat]
        stop(o) == [placed |-> p, outcome |-> o,
                    conflicts |-> an.conflicts, merges |-> DOMAIN an.compat]
    IN
    IF an.conflicts # {} /\ ask_on_conflict
    THEN IF higher_priority_conflicts(an.conflicts, course_key) # {}
         THEN stop("rejected")
         ELSE IF answer # "Yes"
         THEN stop("declined")
         ELSE res(WriteAll(EvictAll(p, order), course_key, pls, an.compat))
    ELSE IF an.conflicts # {}
    THEN stop("skipped")
    ELSE res(WriteAll(p, course_key, pls, an.compat))

\* the course keys held by an entry, and the cells holding a key
KeysOf(info) == IF info.type = "dual" THEN {info.odd.course_key, info.even.course_key}
                                      ELSE {info.course}
CellsOf(p, course_key) == {p[i].pos : i \in {j \in 1..Len(p) : course_key \in KeysOf(p[j])}}
DualCellsOf(p, course_key) ==
    {p[i].pos : i \in {j \in 1..Len(p) : p[j].type = "dual" /\ course_key \in KeysOf(p[j])}}

(***************************************************************************)
(* The state machine.                                                      *)
(***************************************************************************)
AddKeys == CourseKeys \cup {"Z"}

NoOp == [op |-> "init", key |-> "", outcome |-> "", conflicts |-> {},
         merged |-> FALSE, had |-> FALSE]

Init ==
    /\ COURSES \in Catalogs
    /\ placed = <<>>
    /\ auto_select_list = <<>>
    /\ last = NoOp

\* add_course_to_table(course_key, ask_on_conflict), processed by
\* _process_course_addition_queue; answer is the button of the conflict dialog
\* and order the iteration order of the set conflicting_courses
AddCourse(course_key, ask_on_conflict, answer) ==
    LET an == Analyse(placed, course_key) IN
    /\ an.conflicts = {} => ask_on_conflict /\ answer = "Yes"
    /\ ~ask_on_conflict => answer = "Yes"
    /\ \E order \in Orders(conflicting_courses(an.conflicts)) :
        LET r == add_course_internal(placed, course_key, ask_on_conflict, answer, order) IN
        /\ placed' = r.placed
        /\ last' = [op |-> "add", key |-> course_key, outcome |-> r.outcome,
                    conflicts |-> r.conflicts, merged |-> r.merges # {},
                    had |-> CellsOf(placed, course_key) # {}]
        /\ UNCHANGED <<COURSES, auto_select_list>>

\* remove_course_silently(course_key)
RemoveCourse(course_key) ==
    /\ placed' = remove_course_from_schedule(placed, course_key)
    /\ last' = [op |-> "remove", key |-> course_key, outcome |-> "removed",
                conflicts |-> {}, merged |-> FALSE,
                had |-> DualCellsOf(placed, course_key) # {}]
    /\ UNCHANGED <<COURSES, auto_select_list>>

InAuto(course_key) == \E i \in 1..Len(auto_select_list) : auto_select_list[i].key = course_key

\* on_add_to_auto with one selected course
OnAddToAuto(course_key) ==
    /\ Len(auto_select_list) < MaxAuto
    /\ ~InAuto(course_key)
    /\ course_key \in DOMAIN COURSES
    /\ auto_select_list' = Append(auto_select_list,
           [key |-> course_key, priority |-> Len(auto_select_list) + 1])
    /\ UNCHANGED <<COURSES, placed, last>>

\* on_remove_from_auto with one selected item
OnRemoveFromAuto(row) ==
    /\ row \in 1..Len(auto_select_list)
    /\ auto_select_list' = [i \in 1..(Len(auto_select_list) - 1) |->
           IF i < row THEN auto_select_list[i] ELSE auto_select_list[i + 1]]
    /\ UNCHANGED <<COURSES, placed, last>>

Next ==
    \/ \E k \in AddKeys, ask \in BOOLEAN, answer \in Answers : AddCourse(k, ask, answer)
    \/ \E k \in AddKeys : RemoveCourse(k)
    \/ \E k \in CourseKeys : OnAddToAuto(k)
    \/ \E row \in 1..MaxAuto : OnRemoveFromAuto(row)

Spec == Init /\ [][Next]_vars

InitTwo ==
    /\ COURSES \in CatalogsTwo
    /\ placed = <<>>
    /\ auto_select_list = <<>>
    /\ last = NoOp

SpecTwo == InitTwo /\ [][Next]_vars

InitSame ==
    /\ COURSES \in CatalogsSame
    /\ placed = <<>>
    /\ auto_select_list = <<>>
    /\ last = NoOp

SpecSame == InitSame /\ [][Next]_vars

(***************************************************************************)
(* Occupancy of the grid cells, as the properties below speak of it.       *)
(***************************************************************************)
AllCells == (0..MaxSlot) \X (0..(NumDays - 1))

Occupancy(p, pos) ==
    IF ~HasPos(p, pos) THEN "Empty"
    ELSE IF At(p, pos).type = "dual" THEN "Dual" ELSE "Single"

\* what a cell holds: nothing, or its entry
Cell(p, pos) == IF HasPos(p, pos) THEN {At(p, pos)} ELSE {}

CellKeys(p, pos) == IF HasPos(p, pos) THEN KeysOf(At(p, pos)) ELSE {}

SameStore(p, q) == \A pos \in AllCells : Cell(p, pos) = Cell(q, pos)

\* C1: every cell is Empty, Single (one catalog course) or Dual (two catalog
\* courses), no origin cell has two entries, and the two sessions of a Dual
\* cell are one Odd and one Even session
C1_OccupancyInvariant ==
    \A i \in 1..Len(placed) :
        /\ \A j \in 1..Len(placed) : i # j => placed[i].pos # placed[j].pos
        /\ placed[i].pos \in AllCells
        /\ placed[i].type \in {"single", "dual"}
        /\ placed[i].type = "single" => placed[i].course \in CourseKeys
        /\ placed[i].type = "dual" =>
              /\ placed[i].odd.course_key \in CourseKeys
              /\ placed[i].even.course_key \in CourseKeys
              /\ placed[i].odd.session.parity = PARITY_ODD
              /\ placed[i].even.session.parity = PARITY_EVEN

\* C2: a removal of key k empties every Single cell of k and turns every Dual
\* cell containing k into a Single cell holding the other course
C2_RemoveDemotesDual ==
    [][last'.op = "remove" =>
        \A pos \in AllCells :
            LET k == last'.key IN
            /\ (Occupancy(placed, pos) = "Single" /\ k \in CellKeys(placed, pos))
                  => Occupancy(placed', pos) = "Empty"
            /\ (Occupancy(placed, pos) = "Dual" /\ k \in CellKeys(placed, pos))
                  => /\ Occupancy(placed', pos) = "Single"
                     /\ CellKeys(placed', pos) = CellKeys(placed, pos) \ {k}]_vars

\* a successful placement of course_key with no eviction, as a store
PlacedPlainly(p, course_key) ==
    /\ CellsOf(p, course_key) = {}
    /\ Analyse(p, course_key).conflicts = {}
    /\ add_course_internal(p, course_key, TRUE, "Yes", <<>>).outcome = "placed"

AfterPlace(p, course_key) == add_course_internal(p, course_key, TRUE, "Yes", <<>>).placed

\* C3: placing a course that is not yet placed (plain placements and merges,
\* no eviction) and then removing it returns every cell it touched to what
\* the cell held before the placement
C3_RoundTrip ==
    \A k \in CourseKeys :
        PlacedPlainly(placed, k) =>
            \A pos \in CellsOf(AfterPlace(placed, k), k) :
                Cell(remove_course_from_schedule(AfterPlace(placed, k), k), pos)
                    = Cell(placed, pos)

\* C4: a removal changes a cell only from Single to Empty or from Dual to
\* Single, and a placement without eviction only from Empty to Single or from
\* Single to Dual
C4_LegalTransitions ==
    [][\A pos \in AllCells :
          LET before == Occupancy(placed, pos)
              after == Occupancy(placed', pos)
          IN /\ last'.op = "remove" /\ before # after
                  => <<before, after>> \in {<<"Single", "Empty">>, <<"Dual", "Single">>}
             /\ last'.op = "add" /\ last'.conflicts = {} /\ before # after
                  => <<before, after>> \in {<<"Empty", "Single">>, <<"Single", "Dual">>}]_vars

\* C5: the two sessions of every Dual cell have the same day, start and end
C5_DualSameSpan ==
    \A i \in 1..Len(placed) :
        placed[i].type = "dual" =>
            /\ placed[i].odd.session.day = placed[i].even.session.day
            /\ placed[i].odd.session.start = placed[i].even.session.start
            /\ placed[i].odd.session.end = placed[i].even.session.end

\* the occupants of the origin cells of the candidate's sessions that are in
\* hard conflict with it: the course of a Single cell unless its session has
\* the same span and the complementary parity, both courses of a Dual cell
CellSessionParity(info) ==
    LET m == MatchingSession(COURSES[info.course], info.pos[2] + 1, info.pos[1], info.rows)
    IN IF m = 0 THEN PARITY_NONE ELSE COURSES[info.course][m].parity

HardConflictsOf(p, course_key) ==
    LET pls == PlacementsOf(COURSES[course_key]) IN
    {o \in CourseKeys \ {course_key} :
        \E i \in 1..Len(pls) :
            LET pos == <<pls[i].srow, pls[i].col>> IN
            /\ HasPos(p, pos)
            /\ course_key \notin KeysOf(At(p, pos))
            /\ o \in KeysOf(At(p, pos))
            /\ At(p, pos).type = "single" =>
                  ~(/\ At(p, pos).rows = pls[i].span
                    /\ is_compatible(pls[i].sess.parity, CellSessionParity(At(p, pos))))}

\* C6: a candidate is rejected whenever an occupant in hard conflict with it,
\* either course of a Dual cell included, has a strictly lower rank number
C6_HigherPriorityRejects ==
    [][(/\ last'.op = "add"
        /\ last'.key \in CourseKeys
        /\ \E o \in HardConflictsOf(placed, last'.key) :
              get_course_priority(o) < get_course_priority(last'.key))
          => last'.outcome \in {"rejected", "skipped"} /\ placed' = placed]_vars

\* C7: after a placement with confirmed eviction, no evicted course is in any
\* cell and the candidate is in the origin cell of each of its sessions
C7_EvictionComplete ==
    [][(/\ last'.op = "add"
        /\ last'.outcome = "placed"
        /\ conflicting_courses(last'.conflicts) # {})
          => /\ \A o \in conflicting_courses(last'.conflicts) : CellsOf(placed', o) = {}
             /\ \A i \in 1..Len(PlacementsOf(COURSES[last'.key])) :
                   LET pl == PlacementsOf(COURSES[last'.key])[i] IN
                   last'.key \in CellKeys(placed', <<pl.srow, pl.col>>)]_vars

\* C8: a placement that does not complete leaves the store as it was
C8_AbortLeavesStore ==
    [][(last'.op = "add" /\ last'.outcome \in {"rejected", "declined", "skipped", "failed"})
          => SameStore(placed, placed')]_vars

\* C9: a cell that already holds the candidate's key holds the same after the
\* candidate is placed again
C9_ReplaceIsNoOp ==
    [][(last'.op = "add" /\ last'.key \in CourseKeys)
          => \A i \in 1..Len(PlacementsOf(COURSES[last'.key])) :
                LET pl == PlacementsOf(COURSES[last'.key])[i]
                    pos == <<pl.srow, pl.col>>
                IN last'.key \in CellKeys(placed, pos) => Cell(placed', pos) = Cell(placed, pos)]_vars

\* C10: removing a key from the store a second time changes nothing
C10_RemoveIdempotent ==
    \A k \in AddKeys :
        SameStore(remove_course_from_schedule(remove_course_from_schedule(placed, k), k),
                  remove_course_from_schedule(placed, k))

C10_Witness ==
    /\ last.op = "remove" /\ last.had
    /\ placed # <<>>
    /\ CellsOf(placed, last.key) = {}

\* the cell at pos is Single with a course other than course_key whose session
\* there has the span of the placement pl and the complementary parity
MergeableSingle(p, course_key, pl) ==
    LET pos == <<pl.srow, pl.col>> IN
    /\ pl.sess.parity \in {PARITY_ODD, PARITY_EVEN}
    /\ HasPos(p, pos)
    /\ At(p, pos).type = "single"
    /\ At(p, pos).course \in CourseKeys \ {course_key}
    /\ At(p, pos).rows = pl.span
    /\ MatchingSession(COURSES[At(p, pos).course], pl.sess.day, pl.srow, pl.span) # 0
    /\ is_compatible(pl.sess.parity, CellSessionParity(At(p, pos)))

\* C11: placing a course on a Single cell whose course has a session of the
\* same day, start and end and the complementary parity yields a Dual cell
\* with the Odd course in the odd slot and the Even course in the even slot,
\* whichever of the two was placed first
C11_ComplementaryPairMerges ==
    [][(/\ last'.op = "add"
        /\ last'.key \in CourseKeys
        /\ last'.conflicts = {})
          => \A i \in 1..Len(PlacementsOf(COURSES[last'.key])) :
                LET pl == PlacementsOf(COURSES[last'.key])[i]
                    pos == <<pl.srow, pl.col>>
                    other == At(placed, pos).course
                    odd_key == IF pl.sess.parity = PARITY_ODD THEN last'.key ELSE other
                    even_key == IF pl.sess.parity = PARITY_ODD THEN other ELSE last'.key
                IN MergeableSingle(placed, last'.key, pl) =>
                      /\ last'.outcome = "placed"
                      /\ Occupancy(placed', pos) = "Dual"
                      /\ At(placed', pos).odd.course_key = odd_key
                      /\ At(placed', pos).even.course_key = even_key
                      /\ At(placed', pos).odd.session.parity = PARITY_ODD
                      /\ At(placed', pos).even.session.parity = PARITY_EVEN]_vars

C11_Witness ==
    /\ last.op = "add" /\ last.key = "A" /\ last.outcome = "placed" /\ last.merged
    /\ last.conflicts = {}
    /\ Occupancy(placed, <<0, 0>>) = "Dual"
    /\ At(placed, <<0, 0>>).odd.course_key = "A"
    /\ At(placed, <<0, 0>>).even.course_key = "B"

(***************************************************************************)
(* core/course_utils.py: the overlap checker, the combination generator    *)
(* and the greedy pass of the priority scheduler.  They are functions of   *)
(* their arguments and of the catalog COURSES.                             *)
(*                                                                         *)
(* A time string "HH:MM" is the pair <<HH, MM>>; the time strings of the   *)
(* model are the whole hours 08:00 .. (8 + MaxHour):00.  A call has at     *)
(* most MaxArgs group keys or course keys.                                 *)
(***************************************************************************)
MaxHour == 3
MaxArgs == 3

TimeStrings == {<<8 + i, 0>> : i \in 0..MaxHour}

\* h, mm = map(int, tstr.split(':')); return h * 60 + mm
to_minutes(tstr) == tstr[1] * 60 + tstr[2]

\* an overlap test that counts touching intervals as overlapping
overlap_closed(s1, e1, s2, e2) == ~(e1 < s2 \/ e2 < s1)

overlap(s1, e1, s2, e2) == ~(e1 <= s2 \/ e2 <= s1)

\* a parity test that accepts only an Odd session against an Even one
is_compatible_parity_one_way(a_parity, b_parity) ==
    a_parity = PARITY_ODD /\ b_parity = PARITY_EVEN

\* is_compatible of schedules_conflict
is_compatible_parity(a_parity, b_parity) ==
    \/ a_parity = PARITY_EVEN /\ b_parity = PARITY_ODD
    \/ a_parity = PARITY_ODD /\ b_parity = PARITY_EVEN

\* a test of one pair of sessions that looks only at sessions b starting
\* no earlier than a
sessions_conflict_forward(a, b) ==
    /\ a.day = b.day
    /\ ~is_compatible_parity(a.parity, b.parity)
    /\ to_minutes(a.start) <= to_minutes(b.start)
    /\ overlap(to_minutes(a.start), to_minutes(a.end), to_minutes(b.start), to_minutes(b.end))

\* the body of the two loops of schedules_conflict for one pair of sessions
sessions_conflict(a, b) ==
    /\ a.day = b.day
    /\ ~is_compatible_parity(a.parity, b.parity)
    /\ overlap(to_minutes(a.start), to_minutes(a.end), to_minutes(b.start), to_minutes(b.end))

schedules_conflict(sch1, sch2) ==
    \E i \in 1..Len(sch1) : \E j \in 1..Len(sch2) : sessions_conflict(sch1[i], sch2[j])

\* a session of the catalog as course_utils reads it
USess(d, s, e, p) == [day |-> d, start |-> s, end |-> e, parity |-> p]

UtilSessionPool ==
    {USess(d, iv[1], iv[2], p) :
        d \in DAYS,
        iv \in {w \in TimeStrings \X TimeStrings : to_minutes(w[1]) < to_minutes(w[2])},
        p \in Parities}

(***************************************************************************)
(* The catalog of the generator: the keys in the order of COURSES.items(), *)
(* their 'code' split at '_' and the words of their 'name'.  A1 has one    *)
(* session drawn from UtilSessionPool; the other schedules are fixed.      *)
(***************************************************************************)
COURSE_ORDER == <<"A1", "A2", "A3", "B1", "B2", "C1">>

UtilKeys == {COURSE_ORDER[i] : i \in 1..Len(COURSE_ORDER)}

CodeOf(k) ==
    CASE k = "A1" -> <<"A", "1">>
      [] k = "A2" -> <<"A", "2">>
      [] k = "A3" -> <<"A", "3">>
      [] k = "B1" -> <<"B", "1">>
      [] k = "B2" -> <<"B", "2">>
      [] k = "C1" -> <<"C", "1">>
      [] OTHER -> <<"">>

NameOf(k) == IF k = "C1" THEN {"P"} ELSE {}

UtilFixedSchedule(k) ==
    CASE k = "A2" -> <<USess(1, <<9, 0>>, <<10, 0>>, PARITY_NONE)>>
      [] k = "A3" -> <<USess(2, <<8, 0>>, <<9, 0>>, PARITY_ODD)>>
      [] k = "B1" -> <<USess(1, <<8, 0>>, <<9, 0>>, PARITY_NONE),
                       USess(2, <<10, 0>>, <<11, 0>>, PARITY_NONE)>>
      [] k = "B2" -> <<USess(2, <<8, 0>>, <<9, 0>>, PARITY_EVEN)>>
      [] k = "C1" -> <<USess(1, <<8, 0>>, <<10, 0>>, PARITY_NONE)>>
      [] OTHER -> <<>>

UtilCatalogs ==
    {[k \in UtilKeys |-> IF k = "A1" THEN <<x>> ELSE UtilFixedSchedule(k)] :
        x \in UtilSessionPool}

RECURSIVE ConcatAll(_)
ConcatAll(seqs) == IF seqs = <<>> THEN <<>> ELSE Head(seqs) \o ConcatAll(Tail(seqs))

\* the schedule items of the courses of a combination, in order
ItemsOf(combo_keys) == ConcatAll([i \in 1..Len(combo_keys) |-> COURSES[combo_keys[i]]])

calculate_days_needed_for_combo(combo_keys) ==
    Cardinality({ItemsOf(combo_keys)[i].day : i \in 1..Len(ItemsOf(combo_keys))})

\* daily[day], sorted: tuples (start, end) in minutes
TupleLess(x, y) == x[1] < y[1] \/ (x[1] = y[1] /\ x[2] < y[2])

\* intervals.sort(): a stable sort, ascending
SortIntervals(seq) ==
    LET n == Len(seq)
        rank(i) == Cardinality({j \in 1..n :
                       \/ TupleLess(seq[j], seq[i])
                       \/ ~TupleLess(seq[i], seq[j]) /\ j < i})
    IN [p \in 1..n |-> seq[CHOOSE i \in 1..n : rank(i) = p - 1]]

DailyIntervals(combo_keys, day) ==
    LET items == SelectSeq(ItemsOf(combo_keys), LAMBDA item : item.day = day)
    IN SortIntervals([i \in 1..Len(items) |->
                         <<to_minutes(items[i].start), to_minutes(items[i].end)>>])

\* gaps counted from 15 minutes on
RECURSIVE GapsFrom_inclusive(_, _)
GapsFrom_inclusive(intervals, i) ==
    IF i >= Len(intervals) THEN 0
    ELSE LET gap == intervals[i + 1][1] - intervals[i][2]
         IN (IF gap >= 15 THEN gap ELSE 0) + GapsFrom_inclusive(intervals, i + 1)

\* the gaps of more than 15 minutes between consecutive intervals, in minutes
RECURSIVE GapsFrom(_, _)
GapsFrom(intervals, i) ==
    IF i >= Len(intervals) THEN 0
    ELSE LET gap == intervals[i + 1][1] - intervals[i][2]
         IN (IF gap > 15 THEN gap ELSE 0) + GapsFrom(intervals, i + 1)

RECURSIVE PenaltyOfDays(_, _)
PenaltyOfDays(combo_keys, days) ==
    IF days = {} THEN 0
    ELSE LET d == CHOOSE x \in days : TRUE
         IN GapsFrom(DailyIntervals(combo_keys, d), 1) + PenaltyOfDays(combo_keys, days \ {d})

\* calculate_empty_time_for_combo, in minutes: 60 times the number the code
\* returns (the code adds gap / 60.0 for each gap; the sum is kept here as
\* an exact number of sixtieths)
calculate_empty_time_for_combo(combo_keys) == PenaltyOfDays(combo_keys, DAYS)

\* the candidates of a group key: by the first part of the code, else by the
\* whole code or the name
candidates(g) ==
    LET by_code == SelectSeq(COURSE_ORDER,
                       LAMBDA k : k \in DOMAIN COURSES /\ CodeOf(k)[1] = g)
        by_name == SelectSeq(COURSE_ORDER,
                       LAMBDA k : k \in DOMAIN COURSES /\ (CodeOf(k) = <<g>> \/ g \in NameOf(k)))
    IN IF by_code # <<>> THEN by_code ELSE by_name

\* a group list that leaves out the groups without candidates
GroupsOf_nonempty(group_keys) ==
    SelectSeq([i \in 1..Len(group_keys) |-> candidates(group_keys[i])], LAMBDA c : c # <<>>)

GroupsOf(group_keys) == [i \in 1..Len(group_keys) |-> candidates(group_keys[i])]

\* itertools.product(*groups), the last group varying fastest
RECURSIVE product(_)
product(groups) ==
    IF groups = <<>> THEN << <<>> >>
    ELSE LET rest == product(Tail(groups))
             h == Head(groups)
         IN ConcatAll([i \in 1..Len(h) |-> [j \in 1..Len(rest) |-> <<h[i]>> \o rest[j]]])

\* a pairwise check of neighbouring picks only
conflict_free_adjacent(keys) ==
    \A i \in 1..Len(keys) : \A j \in (i + 1)..Len(keys) :
        j = i + 1 => ~schedules_conflict(COURSES[keys[i]], COURSES[keys[j]])

\* "ok" of one pick
conflict_free(keys) ==
    \A i \in 1..Len(keys) : \A j \in (i + 1)..Len(keys) :
        ~schedules_conflict(COURSES[keys[i]], COURSES[keys[j]])

\* a loop over the picks that stops at the first conflicting pick
surviving_until_conflict(picks) ==
    IF \A i \in 1..Len(picks) : conflict_free(picks[i]) THEN picks
    ELSE SubSeq(picks, 1, (CHOOSE i \in 1..Len(picks) :
                              /\ ~conflict_free(picks[i])
                              /\ \A j \in 1..(i - 1) : conflict_free(picks[j])) - 1)

\* the picks that reach combos.append
surviving(picks) == SelectSeq(picks, conflict_free)

\* one element of combos; empty and score are 60 and 120 times the floats of
\* the code, days is the integer of the code
Combo(keys) ==
    LET days == calculate_days_needed_for_combo(keys)
        empty == calculate_empty_time_for_combo(keys)
    IN [courses |-> keys, days |-> days, empty |-> empty, score |-> 120 * days + empty]

\* the sort key (days, empty, score) compared as Python compares tuples
ComboLess(x, y) ==
    \/ x.days < y.days
    \/ x.days = y.days /\ x.empty < y.empty
    \/ x.days = y.days /\ x.empty = y.empty /\ x.score < y.score

\* combos left in the order of the product
sort_combos_unsorted(combos) == combos

\* combos.sort(key=lambda x: (x['days'], x['empty'], x['score']))
\* (list.sort is stable)
sort_combos(combos) ==
    LET n == Len(combos)
        rank(i) == Cardinality({j \in 1..n :
                       \/ ComboLess(combos[j], combos[i])
                       \/ ~ComboLess(combos[i], combos[j]) /\ j < i})
    IN [p \in 1..n |-> combos[CHOOSE i \in 1..n : rank(i) = p - 1]]

generate_best_combinations_for_groups(group_keys) ==
    LET groups == GroupsOf(group_keys) IN
    IF \E i \in 1..Len(groups) : groups[i] = <<>>
    THEN <<>>
    ELSE LET picks == surviving(product(groups))
         IN sort_combos([i \in 1..Len(picks) |-> Combo(picks[i])])

\* a check of the candidate against the last selected course only
has_conflict_last_only(current_schedule, selected_courses) ==
    /\ selected_courses # <<>>
    /\ schedules_conflict(current_schedule, COURSES[selected_courses[Len(selected_courses)]])

\* has_conflict of create_greedy_schedule
has_conflict(current_schedule, selected_courses) ==
    \E i \in 1..Len(selected_courses) :
        schedules_conflict(current_schedule, COURSES[selected_courses[i]])

RECURSIVE GreedyFrom(_, _)
GreedyFrom(ordered_course_keys, selected_courses) ==
    IF ordered_course_keys = <<>> THEN selected_courses
    ELSE LET course_key == Head(ordered_course_keys) IN
         IF course_key \notin DOMAIN COURSES
         THEN GreedyFrom(Tail(ordered_course_keys), selected_courses)
         ELSE IF has_conflict(COURSES[course_key], selected_courses)
              THEN GreedyFrom(Tail(ordered_course_keys), selected_courses)
              ELSE GreedyFrom(Tail(ordered_course_keys), Append(selected_courses, course_key))

\* a pass that selects every catalog course of the order
create_greedy_schedule_unchecked(ordered_course_keys) ==
    SelectSeq(ordered_course_keys, LAMBDA k : k \in DOMAIN COURSES)

create_greedy_schedule(ordered_course_keys) == GreedyFrom(ordered_course_keys, <<>>)

(***************************************************************************)
(* The calls of course_utils: a call is drawn with its arguments when the  *)
(* program starts and returns once.                                        *)
(***************************************************************************)
GroupNames == {"A", "B", "P", "D"}

SeqsUpTo(S, n) == UNION {[1..m -> S] : m \in 0..n}

NoCall == [op |-> "call", fn |-> "", group_keys |-> <<>>, ordered_course_keys |-> <<>>,
           sch1 |-> <<>>, sch2 |-> <<>>, combos |-> <<>>, selected |-> <<>>,
           conflict |-> FALSE]

InitUtils ==
    /\ COURSES \in UtilCatalogs
    /\ placed = <<>>
    /\ auto_select_list = <<>>
    /\ \/ \E k \in UtilKeys, b \in UtilSessionPool :
             last = [NoCall EXCEPT !.fn = "schedules_conflict",
                                   !.sch1 = COURSES[k], !.sch2 = <<b>>]
       \/ \E k1 \in UtilKeys, k2 \in UtilKeys :
             last = [NoCall EXCEPT !.fn = "schedules_conflict",
                                   !.sch1 = COURSES[k1], !.sch2 = COURSES[k2]]
       \/ \E group_keys \in SeqsUpTo(GroupNames, MaxArgs) :
             last = [NoCall EXCEPT !.fn = "generate_best_combinations_for_groups",
                                   !.group_keys = group_keys]
       \/ \E ordered_course_keys \in SeqsUpTo(UtilKeys \cup {"Z"}, MaxArgs) :
             last = [NoCall EXCEPT !.fn = "create_greedy_schedule",
                                   !.ordered_course_keys = ordered_course_keys]

CallSchedulesConflict ==
    /\ last.op = "call" /\ last.fn = "schedules_conflict"
    /\ last' = [last EXCEPT !.op = "return",
                            !.conflict = schedules_conflict(last.sch1, last.sch2)]
    /\ UNCHANGED <<COURSES, placed, auto_select_list>>

CallGenerateBest ==
    /\ last.op = "call" /\ last.fn = "generate_best_combinations_for_groups"
    /\ last' = [last EXCEPT !.op = "return",
                            !.combos = generate_best_combinations_for_groups(last.group_keys)]
    /\ UNCHANGED <<COURSES, placed, auto_select_list>>

CallGreedy ==
    /\ last.op = "call" /\ last.fn = "create_greedy_schedule"
    /\ last' = [last EXCEPT !.op = "return",
                            !.selected = create_greedy_schedule(last.ordered_course_keys)]
    /\ UNCHANGED <<COURSES, placed, auto_select_list>>

NextUtils == CallSchedulesConflict \/ CallGenerateBest \/ CallGreedy

SpecUtils == InitUtils /\ [][NextUtils]_vars

Returned(fn) == last.op = "return" /\ last.fn = fn

\* C12: the overlap checker gives the same answer with its arguments exchanged
C12_ConflictSymmetric ==
    Returned("schedules_conflict") =>
        last.conflict = schedules_conflict(last.sch2, last.sch1)

C12_Witness ==
    /\ Returned("schedules_conflict")
    /\ last.conflict
    /\ Len(last.sch1) = 2 /\ Len(last.sch2) = 1
    /\ last.sch2[1].parity # PARITY_NONE

\* a returned call of the overlap checker on two single sessions
TwoSessions == Returned("schedules_conflict") /\ Len(last.sch1) = 1 /\ Len(last.sch2) = 1

\* the half-open intervals [start, end) of two sessions have a minute in common
IntervalsMeet(a, b) ==
    /\ to_minutes(a.start) < to_minutes(b.end)
    /\ to_minutes(b.start) < to_minutes(a.end)

OddEvenPair(a, b) == {a.parity, b.parity} = {PARITY_ODD, PARITY_EVEN}

\* C13: two sessions on different days do not conflict; two sessions on one
\* day whose parities are not an Odd/Even pair conflict exactly when their
\* half-open intervals overlap, so back-to-back sessions do not conflict
C13_ConflictIsIntervalOverlap ==
    TwoSessions =>
        LET a == last.sch1[1]
            b == last.sch2[1]
        IN /\ a.day # b.day => ~last.conflict
           /\ (a.day = b.day /\ ~OddEvenPair(a, b)) => (last.conflict <=> IntervalsMeet(a, b))
           /\ (a.day = b.day /\ ~OddEvenPair(a, b) /\ a.end = b.start) => ~last.conflict

C13_Witness ==
    /\ TwoSessions
    /\ last.sch1[1].day = last.sch2[1].day
    /\ last.sch1[1].parity = PARITY_NONE /\ last.sch2[1].parity = PARITY_NONE
    /\ last.sch1[1].end = last.sch2[1].start
    /\ ~last.conflict

\* C14: two sessions on one day with parities Odd and Even never conflict; a
\* session without parity conflicts with every session on its day whose
\* interval overlaps it; two overlapping sessions on one day with the same
\* parity conflict
C14_ParityComplementClosure ==
    TwoSessions =>
        LET a == last.sch1[1]
            b == last.sch2[1]
        IN /\ (a.day = b.day /\ OddEvenPair(a, b)) => ~last.conflict
           /\ (a.day = b.day /\ IntervalsMeet(a, b)
                 /\ (a.parity = PARITY_NONE \/ b.parity = PARITY_NONE)) => last.conflict
           /\ (a.day = b.day /\ IntervalsMeet(a, b) /\ a.parity = b.parity) => last.conflict

C14_Witness ==
    /\ TwoSessions
    /\ last.sch1[1].day = last.sch2[1].day
    /\ last.sch1[1].parity = PARITY_EVEN /\ last.sch2[1].parity = PARITY_ODD
    /\ IntervalsMeet(last.sch1[1], last.sch2[1])
    /\ last.sch1[1].start # last.sch2[1].start
    /\ ~last.conflict

Generated == Returned("generate_best_combinations_for_groups")

\* the ranges of the candidate lists of the requested groups
CandidateSets == [i \in 1..Len(last.group_keys) |->
                     {candidates(last.group_keys[i])[j] :
                         j \in 1..Len(candidates(last.group_keys[i]))}]

\* the tuples with one candidate of each group, in the order of the groups
RECURSIVE TuplesOf(_)
TuplesOf(sets) ==
    IF sets = <<>> THEN {<<>>}
    ELSE {<<x>> \o t : x \in Head(sets), t \in TuplesOf(Tail(sets))}

Tuples == TuplesOf(CandidateSets)

\* no session of one pick conflicts with a session of another pick
PairwiseFree(keys) ==
    \A i, j \in 1..Len(keys) :
        i # j => \A x \in 1..Len(COURSES[keys[i]]) : \A y \in 1..Len(COURSES[keys[j]]) :
                    ~sessions_conflict(COURSES[keys[i]][x], COURSES[keys[j]][y])

\* C15: in every returned combination no two member courses have sessions
\* that conflict
C15_CombinationSound ==
    Generated => \A c \in 1..Len(last.combos) : PairwiseFree(last.combos[c].courses)

C15_Witness ==
    /\ Generated
    /\ Len(last.group_keys) = 3
    /\ last.combos # <<>>
    /\ Len(last.combos) < Cardinality(Tuples)

\* C16: the returned combinations are exactly the tuples of one candidate per
\* group whose picks are pairwise conflict-free, each once; for the groups
\* {B1, B2} and {C1}, where B1 conflicts with C1 and B2 does not, the one
\* combination is [B2, C1]
C16_CombinationComplete ==
    Generated =>
        LET free == {f \in Tuples : PairwiseFree(f)}
        IN /\ {last.combos[c].courses : c \in 1..Len(last.combos)} = free
           /\ Len(last.combos) = Cardinality(free)

C16_Witness ==
    /\ Generated
    /\ last.group_keys = <<"B", "P">>
    /\ schedules_conflict(COURSES["B1"], COURSES["C1"])
    /\ ~schedules_conflict(COURSES["B2"], COURSES["C1"])
    /\ Len(last.combos) = 1
    /\ last.combos[1].courses = <<"B2", "C1">>

\* C17: an empty group list yields a result with no combinations
C17_EmptyGroupListEmptyResult ==
    (Generated /\ last.group_keys = <<>>) => last.combos = <<>>

\* C18: when a requested group has no candidates the result is empty,
\* whatever the other groups hold
C18_EmptyGroupEmptyResult ==
    (Generated /\ \E i \in 1..Len(last.group_keys) : candidates(last.group_keys[i]) = <<>>)
        => last.combos = <<>>

C18_Witness ==
    /\ Generated
    /\ \E i, j \in 1..Len(last.group_keys) :
          /\ candidates(last.group_keys[i]) = <<>>
          /\ candidates(last.group_keys[j]) # <<>>
    /\ last.combos = <<>>

\* the triple (days, empty, score) of x is lexicographically at most that of y
TripleLeq(x, y) ==
    \/ x.days < y.days
    \/ x.days = y.days /\ x.empty < y.empty
    \/ x.days = y.days /\ x.empty = y.empty /\ x.score <= y.score

\* C19: the returned combinations carry the days, gap penalty and score of
\* their courses and are in ascending order of (days, gap penalty, score)
C19_CombinationsSorted ==
    Generated =>
        /\ \A c \in 1..Len(last.combos) :
              /\ last.combos[c].days = calculate_days_needed_for_combo(last.combos[c].courses)
              /\ last.combos[c].empty = calculate_empty_time_for_combo(last.combos[c].courses)
        /\ \A c \in 1..(Len(last.combos) - 1) : TripleLeq(last.combos[c], last.combos[c + 1])

C19_Witness ==
    /\ Generated
    /\ Len(last.combos) >= 3
    /\ last.combos[1].days < last.combos[Len(last.combos)].days
    /\ \E c \in 1..(Len(last.combos) - 1) :
          /\ last.combos[c].days = last.combos[c + 1].days
          /\ last.combos[c].empty < last.combos[c + 1].empty
    /\ last.combos[1].courses # surviving(product(GroupsOf(last.group_keys)))[1]

\* C20: the courses selected by the greedy pass are pairwise conflict-free
C20_GreedyConflictFree ==
    Returned("create_greedy_schedule") =>
        \A i, j \in 1..Len(last.selected) :
            i < j => /\ ~schedules_conflict(COURSES[last.selected[j]], COURSES[last.selected[i]])
                     /\ ~schedules_conflict(COURSES[last.selected[i]], COURSES[last.selected[j]])

C20_Witness ==
    /\ Returned("create_greedy_schedule")
    /\ Len(last.ordered_course_keys) = 3
    /\ \A i \in 1..3 : last.ordered_course_keys[i] \in UtilKeys
    /\ Len(last.selected) = 2
    /\ last.selected = <<last.ordered_course_keys[1], last.ordered_course_keys[3]>>

\* the elements of seq at the positions P, in order
Restrict(seq, P) ==
    LET idx == SelectSeq([i \in 1..Len(seq) |-> i], LAMBDA i : i \in P)
    IN [n \in 1..Len(idx) |-> seq[idx[n]]]

\* P holds the position of a key exactly when the key is in the catalog and
\* conflicts with no key at an earlier position of P
GreedyPositions(order, P) ==
    \A i \in 1..Len(order) :
        i \in P <=> /\ order[i] \in DOMAIN COURSES
                    /\ \A j \in P : j < i =>
                          ~schedules_conflict(COURSES[order[i]], COURSES[order[j]])

\* C21: the greedy pass selects a key exactly when it is in the catalog and
\* conflicts with none of the keys selected before it: the result is the
\* priority order restricted to those positions, it starts with the first
\* catalog key of the order, and every catalog key left out conflicts with a
\* selected key of an earlier position
C21_GreedySelectsExactly ==
    Returned("create_greedy_schedule") =>
        LET order == last.ordered_course_keys
            known == {i \in 1..Len(order) : order[i] \in DOMAIN COURSES}
        IN /\ \E P \in SUBSET (1..Len(order)) :
                 /\ GreedyPositions(order, P)
                 /\ last.selected = Restrict(order, P)
                 /\ \A i \in known \ P :
                       \E j \in P : /\ j < i
                                    /\ schedules_conflict(COURSES[order[i]], COURSES[order[j]])
           /\ known # {} =>
                 /\ last.selected # <<>>
                 /\ last.selected[1] = order[CHOOSE i \in known : \A j \in known : i <= j]

C21_Witness ==
    /\ Returned("create_greedy_schedule")
    /\ Len(last.ordered_course_keys) = 3
    /\ last.ordered_course_keys[1] \notin DOMAIN COURSES
    /\ last.ordered_course_keys[2] \in DOMAIN COURSES
    /\ last.ordered_course_keys[3] \in DOMAIN COURSES
    /\ last.selected = <<last.ordered_course_keys[2]>>

(***************************************************************************)
(* core/course_utils.py: the priority scheduler.  A call that ends in an   *)
(* exception (KeyError of COURSES[course_key]) has raised = TRUE.          *)
(***************************************************************************)
InSeq(x, seq) == \E i \in 1..Len(seq) : seq[i] = x

\* the first loop of create_alternative_schedule
RECURSIVE AltFirst(_, _, _, _)
AltFirst(keys, skip_count, selected_courses, skipped_courses) ==
    IF keys = <<>> \/ Len(skipped_courses) >= skip_count
    THEN [raised |-> FALSE, selected |-> selected_courses, skipped |-> skipped_courses]
    ELSE IF Head(keys) \notin DOMAIN COURSES
    THEN [raised |-> TRUE, selected |-> selected_courses, skipped |-> skipped_courses]
    ELSE IF has_conflict(COURSES[Head(keys)], selected_courses)
    THEN AltFirst(Tail(keys), skip_count, selected_courses,
                  Append(skipped_courses, Head(keys)))
    ELSE AltFirst(Tail(keys), skip_count, Append(selected_courses, Head(keys)),
                  skipped_courses)

\* the second loop of create_alternative_schedule
RECURSIVE AltSecond(_, _, _)
AltSecond(keys, selected_courses, skipped_courses) ==
    IF keys = <<>> THEN [raised |-> FALSE, courses |-> selected_courses]
    ELSE IF InSeq(Head(keys), selected_courses) \/ InSeq(Head(keys), skipped_courses)
    THEN AltSecond(Tail(keys), selected_courses, skipped_courses)
    ELSE IF Head(keys) \notin DOMAIN COURSES
    THEN [raised |-> TRUE, courses |-> selected_courses]
    ELSE IF has_conflict(COURSES[Head(keys)], selected_courses)
    THEN AltSecond(Tail(keys), selected_courses, skipped_courses)
    ELSE AltSecond(Tail(keys), Append(selected_courses, Head(keys)), skipped_courses)

\* an alternative that ends with the first loop
create_alternative_schedule_first_loop(ordered_course_keys, skip_count) ==
    LET first == AltFirst(ordered_course_keys, skip_count, <<>>, <<>>)
    IN [raised |-> first.raised, courses |-> first.selected]

create_alternative_schedule(ordered_course_keys, skip_count) ==
    LET first == AltFirst(ordered_course_keys, skip_count, <<>>, <<>>) IN
    IF first.raised THEN [raised |-> TRUE, courses |-> first.selected]
    ELSE AltSecond(ordered_course_keys, first.selected, first.skipped)

PRIORITY_GREEDY == "Priority Greedy"

\* f'Skip {skip_count} Lower Priority'
SkipMethod(skip_count) ==
    CASE skip_count = 1 -> "Skip 1 Lower Priority"
      [] skip_count = 2 -> "Skip 2 Lower Priority"
      [] OTHER -> "Skip 3 Lower Priority"

Min(a, b) == IF a <= b THEN a ELSE b

\* one element of valid_schedules; empty is in minutes
ScheduleResult(courses, method, score) ==
    [courses |-> courses, method |-> method, score |-> score, priority_preserved |-> TRUE,
     days |-> calculate_days_needed_for_combo(courses),
     empty |-> calculate_empty_time_for_combo(courses)]

\* a test that never finds the alternative among the results
already_produced_never(alternative, valid_schedules) == FALSE

\* alternative in [s['courses'] for s in valid_schedules]
already_produced(alternative, valid_schedules) ==
    \E i \in 1..Len(valid_schedules) : valid_schedules[i].courses = alternative

\* the loop "for skip_count in range(1, min(4, len(ordered_course_keys)))"
RECURSIVE AlternativesFrom(_, _, _)
AlternativesFrom(ordered_course_keys, skip_count, valid_schedules) ==
    IF skip_count >= Min(4, Len(ordered_course_keys))
    THEN [raised |-> FALSE, schedules |-> valid_schedules]
    ELSE LET alt == create_alternative_schedule(ordered_course_keys, skip_count) IN
         IF alt.raised THEN [raised |-> TRUE, schedules |-> <<>>]
         ELSE AlternativesFrom(ordered_course_keys, skip_count + 1,
                  IF alt.courses # <<>> /\ ~already_produced(alt.courses, valid_schedules)
                  THEN Append(valid_schedules,
                           ScheduleResult(alt.courses, SkipMethod(skip_count),
                               Len(alt.courses) * 100 - skip_count * 10))
                  ELSE valid_schedules)

\* a sort by ascending score
sort_schedules_ascending(valid_schedules) ==
    LET n == Len(valid_schedules)
        rank(i) == Cardinality({j \in 1..n :
                       \/ valid_schedules[j].score < valid_schedules[i].score
                       \/ valid_schedules[j].score = valid_schedules[i].score /\ j < i})
    IN [p \in 1..n |-> valid_schedules[CHOOSE i \in 1..n : rank(i) = p - 1]]

\* sorted(valid_schedules, key=lambda x: x['score'], reverse=True): stable
sort_schedules(valid_schedules) ==
    LET n == Len(valid_schedules)
        rank(i) == Cardinality({j \in 1..n :
                       \/ valid_schedules[j].score > valid_schedules[i].score
                       \/ valid_schedules[j].score = valid_schedules[i].score /\ j < i})
    IN [p \in 1..n |-> valid_schedules[CHOOSE i \in 1..n : rank(i) = p - 1]]

generate_priority_based_schedules(ordered_course_keys) ==
    LET greedy_schedule == create_greedy_schedule(ordered_course_keys)
        first == IF greedy_schedule # <<>>
                 THEN <<ScheduleResult(greedy_schedule, PRIORITY_GREEDY,
                                       Len(greedy_schedule) * 100)>>
                 ELSE <<>>
        all == AlternativesFrom(ordered_course_keys, 1, first)
    IN IF all.raised THEN all
       ELSE [raised |-> FALSE, schedules |-> sort_schedules(all.schedules)]

(***************************************************************************)
(* The calls of the priority scheduler.  The catalogs are those of the     *)
(* generator and the same with a course A3 that has no sessions; an order  *)
(* has at most MaxArgs + 1 keys, known or unknown, repeated or not.        *)
(***************************************************************************)
PriorityCatalogs ==
    UtilCatalogs \cup {[c EXCEPT !["A3"] = <<>>] : c \in UtilCatalogs}

PriorityOrderKeys == {"A1", "A3", "B1", "C1", "Z"}

NoPriorityCall == [op |-> "call", fn |-> "generate_priority_based_schedules",
                   ordered_course_keys |-> <<>>, raised |-> FALSE, schedules |-> <<>>]

InitPriority ==
    /\ COURSES \in PriorityCatalogs
    /\ placed = <<>>
    /\ auto_select_list = <<>>
    /\ \E ordered_course_keys \in SeqsUpTo(PriorityOrderKeys, MaxArgs + 1) :
          last = [NoPriorityCall EXCEPT !.ordered_course_keys = ordered_course_keys]

CallPriorityBased ==
    /\ last.op = "call" /\ last.fn = "generate_priority_based_schedules"
    /\ LET r == generate_priority_based_schedules(last.ordered_course_keys)
       IN last' = [last EXCEPT !.op = "return", !.raised = r.raised,
                               !.schedules = r.schedules]
    /\ UNCHANGED <<COURSES, placed, auto_select_list>>

NextPriority == CallPriorityBased

SpecPriority == InitPriority /\ [][NextPriority]_vars

Scheduled == Returned("generate_priority_based_schedules")

\* C22: a priority order with keys that are not in the catalog makes the
\* priority scheduler return normally
C22_UnknownKeysIgnored ==
    (Scheduled /\ \E i \in 1..Len(last.ordered_course_keys) :
                     last.ordered_course_keys[i] \notin DOMAIN COURSES)
        => ~last.raised

\* a returned call whose order holds catalog courses only
ScheduledKnown ==
    /\ Scheduled
    /\ \A i \in 1..Len(last.ordered_course_keys) : last.ordered_course_keys[i] \in DOMAIN COURSES

\* the methods of the results produced before the alternative of skip_count
EarlierMethods(skip_count) ==
    {PRIORITY_GREEDY} \cup {SkipMethod(j) : j \in 1..(skip_count - 1)}

\* C23: for an order of n courses and each k in 1..min(3, n-1) there is one
\* result labeled 'Skip k Lower Priority', holding the courses of the k-th
\* alternative with score 100 * (number of courses) - 10 * k, unless a result
\* produced before it has the same course list; there is no other skip
\* result, and no two results have the same course list
C23_SkipAlternatives ==
    ScheduledKnown =>
        LET order == last.ordered_course_keys
            res == last.schedules
            with(method) == {i \in 1..Len(res) : res[i].method = method}
        IN /\ ~last.raised
           /\ \A k \in 1..3 :
                 IF k > Min(3, Len(order) - 1) THEN with(SkipMethod(k)) = {}
                 ELSE LET alt == create_alternative_schedule(order, k).courses IN
                      IF \E i \in 1..Len(res) : /\ res[i].method \in EarlierMethods(k)
                                                /\ res[i].courses = alt
                      THEN with(SkipMethod(k)) = {}
                      ELSE /\ Cardinality(with(SkipMethod(k))) = 1
                           /\ \A i \in with(SkipMethod(k)) :
                                 /\ res[i].courses = alt
                                 /\ res[i].score = Len(res[i].courses) * 100 - k * 10
           /\ \A i, j \in 1..Len(res) : i # j => res[i].courses # res[j].courses

C23_Witness ==
    /\ ScheduledKnown
    /\ Len(last.schedules) = 2
    /\ last.schedules[2].method = SkipMethod(1)
    /\ last.schedules[2].score = 190

\* C24: the results of the priority scheduler are in descending order of score
C24_SchedulesSortedByScore ==
    (Scheduled /\ ~last.raised) =>
        \A i \in 1..(Len(last.schedules) - 1) :
            last.schedules[i].score >= last.schedules[i + 1].score

C24_Witness ==
    /\ Scheduled /\ ~last.raised
    /\ Len(last.schedules) >= 2
    /\ last.schedules[1].score > last.schedules[2].score
    /\ last.schedules[1].method = PRIORITY_GREEDY

(***************************************************************************)
(* Courses with a session off the grid.  X has the drawn session and one   *)
(* session on day 1 off the grid: one whose end is not a slot, before the  *)
(* drawn session, or one whose start is not a slot, after it.              *)
\* C34: for a priority order of distinct keys of the catalog, every skip-k
\* alternative, k = 1..3, is the course list of the greedy pass, and the
\* scheduler returns at most one result
DistinctKnown(ordered_course_keys) ==
    /\ \A i \in 1..Len(ordered_course_keys) : ordered_course_keys[i] \in DOMAIN COURSES
    /\ \A i, j \in 1..Len(ordered_course_keys) :
           i # j => ordered_course_keys[i] # ordered_course_keys[j]

C34_AlternativesEqualGreedy ==
    (Scheduled /\ DistinctKnown(last.ordered_course_keys)) =>
        /\ ~last.raised
        /\ \A skip_count \in 1..3 :
               LET alt == create_alternative_schedule(last.ordered_course_keys, skip_count)
               IN /\ ~alt.raised
                  /\ alt.courses = create_greedy_schedule(last.ordered_course_keys)
        /\ Len(last.schedules) <= 1

\* an order of three distinct courses of the catalog of which the greedy pass
\* leaves one out
C34_Witness ==
    /\ Scheduled /\ DistinctKnown(last.ordered_course_keys)
    /\ Len(last.ordered_course_keys) = 3
    /\ Len(create_greedy_schedule(last.ordered_course_keys)) = 2
    /\ last.ordered_course_keys[3] = create_greedy_schedule(last.ordered_course_keys)[2]
    /\ Len(last.schedules) = 1

\* C35: after remove_course_from_schedule(course_key) the key is in no entry
\* of the store, neither as the course of a single entry nor as one of the
\* two courses of a dual entry
C35_RemovedKeyOccupiesNoCell ==
    last.op = "remove" =>
        \A i \in 1..Len(placed) :
            IF placed[i].type = "dual" THEN ~InCourses(last.key, placed[i])
                                       ELSE placed[i].course # last.key

\* the removed course shared a dual cell, and the other course of that cell
\* is still in the store
C35_Witness ==
    /\ last.op = "remove" /\ last.had
    /\ \E k \in CourseKeys \ {last.key} : DualCellsOf(placed, k) = {} /\ CellsOf(placed, k) # {}
    /\ CellsOf(placed, last.key) = {}

(***************************************************************************)
(* The store with a course X that has an odd and an even session in one    *)
(* slot, in either order (the catalogs of SpecSame with complementary      *)
(* parities).                                                              *)
(***************************************************************************)
CatalogsPair ==
    {c \in CatalogsSame : is_compatible(c["X"][1].parity, c["X"][2].parity)}

InitPair ==
    /\ COURSES \in CatalogsPair
    /\ placed = <<>>
    /\ auto_select_list = <<>>
    /\ last = NoOp

SpecPair == InitPair /\ [][Next]_vars

\* C36: the two courses of a dual entry are different courses
C36_DualKeysDiffer ==
    \A i \in 1..Len(placed) :
        placed[i].type = "dual" => placed[i].odd.course_key # placed[i].even.course_key

\* a course with an odd and an even session in one slot has been added while
\* it was on the grid, and the store has a dual entry
C36_Witness ==
    /\ last.op = "add" /\ last.key = "X" /\ last.had
    /\ Len(COURSES["X"]) = 2
    /\ is_compatible(COURSES["X"][1].parity, COURSES["X"][2].parity)
    /\ CellsOf(placed, "X") # {}
    /\ \E i \in 1..Len(placed) : placed[i].type = "dual"

(***************************************************************************)
BadEnd == [day |-> 1, start |-> SlotTime(0), end |-> TimeString(START_MINUTES + 45), parity |-> PARITY_NONE]

BadStart == [day |-> 1, start |-> TimeString(START_MINUTES + 15), end |-> SlotTime(1), parity |-> PARITY_NONE]

CatalogsInvalid ==
    {[k \in CourseKeys |-> IF k = "X" THEN sched ELSE FixedSchedule(k)] :
        sched \in UNION {{<<BadEnd, x>>, <<x, BadStart>>} : x \in SessionPool}}

InitInvalid ==
    /\ COURSES \in CatalogsInvalid
    /\ placed = <<>>
    /\ auto_select_list = <<>>
    /\ last = NoOp

SpecInvalid == InitInvalid /\ [][Next]_vars

\* the times of the grid, and the sessions of a course that lie on the grid
GridTimes == {SlotTime(i) : i \in 0..MaxSlot}

OnGrid(sess) == sess.day \in DAYS /\ sess.start \in GridTimes /\ sess.end \in GridTimes

OriginOf(sess) == <<SlotIndex(sess.start), sess.day - 1>>

ValidOrigins(course_key) ==
    {OriginOf(COURSES[course_key][i]) :
        i \in {j \in 1..Len(COURSES[course_key]) : OnGrid(COURSES[course_key][j])}}

HasOffGrid(course_key) ==
    \E i \in 1..Len(COURSES[course_key]) : ~OnGrid(COURSES[course_key][i])

\* C25: when a course with a session off the grid is added, the sessions on
\* the grid are still analysed (an occupied origin cell of another course is
\* met as a conflict or a merge) and, with nothing in their way, placed: the
\* addition ends as placed and the course is in the origin cell of each of
\* its sessions on the grid (in no other cell, if it was not in the store)
C25_InvalidSessionSkipped ==
    [][(/\ last'.op = "add"
        /\ last'.key \in CourseKeys
        /\ HasOffGrid(last'.key))
          => LET k == last'.key IN
             /\ (\E pos \in ValidOrigins(k) : HasPos(placed, pos) /\ k \notin CellKeys(placed, pos))
                    => (last'.conflicts # {} \/ last'.merged)
             /\ (last'.conflicts = {} /\ ~last'.merged)
                    => /\ last'.outcome = "placed"
                       /\ ValidOrigins(k) \subseteq CellsOf(placed', k)
                       /\ ~last'.had => CellsOf(placed', k) = ValidOrigins(k)]_vars

C25_Witness ==
    /\ last.op = "add" /\ last.key = "X" /\ last.outcome = "placed"
    /\ HasOffGrid("X")
    /\ ~last.had /\ ~last.merged /\ last.conflicts = {}
    /\ Len(placed) = 3
    /\ Cardinality(CellsOf(placed, "X")) = 1

(***************************************************************************)
(* _process_course_addition_queue and update_user_data: a batch of queued  *)
(* additions is processed one course after the other and the keys of the   *)
(* store are then exported to user_data['current_schedule'], held here in  *)
(* last.current_schedule.  A KeyError of one addition ends the batch       *)
(* before the export.                                                      *)
(***************************************************************************)
MaxBatch == 2

\* the value of dict.get for a key the entry does not have
NONE == "None"

\* the keys appended for one entry of self.placed: a dual entry has no
\* 'odd_key' / 'even_key' and falls back to its 'courses' list, a single
\* entry has 'course' and no 'course_key'
ExportedKeys(info) ==
    IF info.type = "dual" THEN <<courses_list(info)[1], courses_list(info)[2]>>
                          ELSE <<NONE>>

RECURSIVE update_user_data(_)
update_user_data(p) ==
    IF p = <<>> THEN <<>> ELSE ExportedKeys(Head(p)) \o update_user_data(Tail(p))

\* seen_courses[course_key] = item ; list(seen_courses.values()): one item
\* per course, at the place of its first occurrence, with the value of its last
unique_queue(queue) ==
    LET firsts == SelectSeq([i \in 1..Len(queue) |-> i],
                            LAMBDA i : \A j \in 1..(i - 1) : queue[j].key # queue[i].key)
        lastOf(k) == CHOOSE i \in 1..Len(queue) :
                         /\ queue[i].key = k
                         /\ \A j \in (i + 1)..Len(queue) : queue[j].key # k
    IN [n \in 1..Len(firsts) |-> queue[lastOf(queue[firsts[n]].key)]]

\* the stores the loop over unique_queue can end with, and the items it
\* has passed to _add_course_internal
RECURSIVE ProcessItems(_, _)
ProcessItems(p, items) ==
    IF items = <<>> THEN {[placed |-> p, raised |-> FALSE, attempted |-> <<>>]}
    ELSE LET it == Head(items) IN
         UNION {LET r == add_course_internal(p, it.key, it.ask_on_conflict, it.answer, order)
                IN IF r.outcome = "failed"
                   THEN {[placed |-> r.placed, raised |-> TRUE, attempted |-> <<it>>]}
                   ELSE {[rest EXCEPT !.attempted = <<it>> \o @] :
                            rest \in ProcessItems(r.placed, Tail(items))} :
                order \in Orders(conflicting_courses(Analyse(p, it.key).conflicts))}

\* a queue: one addition of a catalog course, asked or not (a click or a
\* load), followed by additions that do not ask (loads)
QueueItems(asks) ==
    {[key |-> k, ask_on_conflict |-> a, answer |-> "Yes"] : k \in CourseKeys, a \in asks}

Queues ==
    UNION {{q \in [1..n -> QueueItems(BOOLEAN)] : \A i \in 2..n : ~q[i].ask_on_conflict} :
              n \in 1..MaxBatch}

NoBatch == [op |-> "init", raised |-> FALSE, current_schedule |-> <<>>]

InitExport ==
    /\ COURSES \in Catalogs
    /\ placed = <<>>
    /\ auto_select_list = <<>>
    /\ last = NoBatch

\* the timer fires with the queue filled by add_course_to_table
ProcessCourseAdditionQueue(queue) ==
    /\ \E r \in ProcessItems(placed, unique_queue(queue)) :
          /\ placed' = r.placed
          /\ last' = [op |-> "batch", raised |-> r.raised,
                      current_schedule |-> IF r.raised THEN last.current_schedule
                                                       ELSE update_user_data(r.placed)]
    /\ UNCHANGED <<COURSES, auto_select_list>>

\* remove_course_silently(course_key): the store changes, user_data does not
RemoveCourseSilently(course_key) ==
    /\ placed' = remove_course_from_schedule(placed, course_key)
    /\ last' = [last EXCEPT !.op = "remove", !.raised = FALSE]
    /\ UNCHANGED <<COURSES, auto_select_list>>

NextExport ==
    \/ \E queue \in Queues : ProcessCourseAdditionQueue(queue)
    \/ \E k \in AddKeys : RemoveCourseSilently(k)
    \/ \E k \in CourseKeys : OnAddToAuto(k)
    \/ \E row \in 1..MaxAuto : OnRemoveFromAuto(row)

SpecExport == InitExport /\ [][NextExport]_vars

StoreKeys(p) == UNION {KeysOf(p[i]) : i \in 1..Len(p)}

\* C26: after a processed batch the exported list holds the key of every
\* course in the store, in a Single or a Dual cell, and nothing else
C26_ExportListsStoreKeys ==
    (last.op = "batch" /\ ~last.raised) =>
        {last.current_schedule[i] : i \in 1..Len(last.current_schedule)} = StoreKeys(placed)

(***************************************************************************)
(* The nested event loops of an addition.  With confirmed conflicts,       *)
(* _add_course_internal evicts the conflicting courses one by one, and     *)
(* each remove_course_from_schedule ends in processEvents(), which         *)
(* dispatches the pending events of the window before the next eviction    *)
(* and before the cells are written.  A click on the remove button of a    *)
(* placed course is such an event: its slot remove_course_silently takes   *)
(* neither course_addition_mutex nor dual_operation_mutex.  last.pc is the *)
(* position of the addition, last.order the courses still to evict and     *)
(* last.compat the compatible_slots of its analysis.                       *)
(***************************************************************************)
Idle == [op |-> "init", pc |-> "idle", key |-> "", order |-> <<>>, compat |-> EmptyCompat]

InitSerial ==
    /\ COURSES \in Catalogs
    /\ placed = <<>>
    /\ auto_select_list = <<>>
    /\ last = Idle

\* the addition reaches its eviction loop: conflicts, asked, no occupant of
\* higher priority, answer Yes
Evicts(p, course_key, ask_on_conflict, answer) ==
    /\ course_key \in DOMAIN COURSES
    /\ ask_on_conflict /\ answer = "Yes"
    /\ Analyse(p, course_key).conflicts # {}
    /\ higher_priority_conflicts(Analyse(p, course_key).conflicts, course_key) = {}
    /\ conflicting_courses(Analyse(p, course_key).conflicts) # {}

\* _add_course_internal up to its first nested event loop, or to its end
\* when it has none
BeginAdd(course_key, ask_on_conflict, answer) ==
    /\ last.pc = "idle"
    /\ IF Evicts(placed, course_key, ask_on_conflict, answer)
       THEN /\ \E order \in Orders(conflicting_courses(Analyse(placed, course_key).conflicts)) :
                  last' = [op |-> "begin", pc |-> "evict", key |-> course_key,
                           order |-> order, compat |-> Analyse(placed, course_key).compat]
            /\ placed' = placed
       ELSE /\ placed' = add_course_internal(placed, course_key, ask_on_conflict,
                                               answer, <<>>).placed
            /\ last' = [Idle EXCEPT !.op = "add", !.key = course_key]
    /\ UNCHANGED <<COURSES, auto_select_list>>

\* one turn of "for conflicting_course_key in conflicting_courses", up to the
\* processEvents() that ends remove_course_from_schedule
EvictNext ==
    /\ last.pc = "evict"
    /\ placed' = remove_course_from_schedule(placed, Head(last.order))
    /\ last' = [last EXCEPT !.op = "evict", !.pc = "events", !.order = Tail(@)]
    /\ UNCHANGED <<COURSES, auto_select_list>>

\* processEvents() returns
EventsDone ==
    /\ last.pc = "events"
    /\ last' = [last EXCEPT !.op = "events_done",
                            !.pc = IF last.order = <<>> THEN "write" ELSE "evict"]
    /\ UNCHANGED <<COURSES, placed, auto_select_list>>

\* the write loop of the addition
WriteSessions ==
    /\ last.pc = "write"
    /\ placed' = WriteAll(placed, last.key, PlacementsOf(COURSES[last.key]), last.compat).placed
    /\ last' = [Idle EXCEPT !.op = "write", !.key = last.key]
    /\ UNCHANGED <<COURSES, auto_select_list>>

\* a click on the remove button of a cell of course_key, dispatched by the
\* main event loop or by the processEvents() of an eviction
ClickRemove(course_key) ==
    /\ last.pc \in {"idle", "events"}
    /\ CellsOf(placed, course_key) # {}
    /\ placed' = remove_course_from_schedule(placed, course_key)
    /\ last' = [last EXCEPT !.op = "remove"]
    /\ UNCHANGED <<COURSES, auto_select_list>>

NextSerial ==
    \/ \E k \in AddKeys, ask \in BOOLEAN, answer \in {"Yes", "No"} : BeginAdd(k, ask, answer)
    \/ EvictNext
    \/ EventsDone
    \/ WriteSessions
    \/ \E k \in CourseKeys : ClickRemove(k)
    \/ \E k \in CourseKeys : OnAddToAuto(k)
    \/ \E row \in 1..MaxAuto : OnRemoveFromAuto(row)

SpecSerial == InitSerial /\ [][NextSerial]_vars

\* the addition is between its conflict analysis and its last cell write
InFlight == last.pc # "idle"

\* C27: while an addition is between its analysis and its last cell write,
\* the store is changed by the steps of that addition only (its evictions
\* and its writes), not by a handler run from one of its nested event loops
C27_MutationsSerialized ==
    [][(InFlight /\ placed' # placed) => last'.op \in {"evict", "write"}]_vars

(***************************************************************************)
(* The spans of schedule_table.  A span is kept at its origin cell; the    *)
(* table holds the spans larger than 1x1.  The placement code sets spans   *)
(* of one column only.  The table of this part has RowCount rows and       *)
(* ColumnCount columns.                                                    *)
(***************************************************************************)
RowCount == 4
ColumnCount == 2

Span(r, c, rs, cs) == [row |-> r, col |-> c, rs |-> rs, cs |-> cs]

Covers(sp, r, c) ==
    /\ sp.row <= r /\ r < sp.row + sp.rs
    /\ sp.col <= c /\ c < sp.col + sp.cs

\* QTableView.rowSpan / columnSpan: the span of the element covering the cell
rowSpan(spans, r, c) ==
    IF \E sp \in spans : Covers(sp, r, c)
    THEN (CHOOSE sp \in spans : Covers(sp, r, c)).rs ELSE 1

columnSpan(spans, r, c) ==
    IF \E sp \in spans : Covers(sp, r, c)
    THEN (CHOOSE sp \in spans : Covers(sp, r, c)).cs ELSE 1

\* QTableView.setSpan: refused ("span cannot overlap") for a cell inside a
\* span that starts elsewhere; 1x1 removes the span of the origin
setSpan(spans, r, c, rs, cs) ==
    IF \E sp \in spans : Covers(sp, r, c) /\ <<sp.row, sp.col>> # <<r, c>>
    THEN spans
    ELSE LET rest == {sp \in spans : <<sp.row, sp.col>> # <<r, c>>} IN
         IF rs <= 1 /\ cs <= 1 THEN rest ELSE rest \cup {Span(r, c, rs, cs)}

\* one turn of the scan "for r in range(row_count): for c in range(col_count)"
ClearAt(spans, r, c, tr0, tc0, tr1, tc1) ==
    LET rs == rowSpan(spans, r, c)
        cs == columnSpan(spans, r, c)
        er1 == Min(RowCount - 1, r + rs - 1)
        ec1 == Min(ColumnCount - 1, c + cs - 1)
    IN IF rs <= 1 /\ cs <= 1 THEN spans
       ELSE IF ~(er1 < tr0 \/ tr1 < r \/ ec1 < tc0 \/ tc1 < c)
            THEN setSpan(spans, r, c, 1, 1)
            ELSE spans

RECURSIVE ClearScan(_, _, _, _, _, _)
ClearScan(spans, n, tr0, tc0, tr1, tc1) ==
    IF n >= RowCount * ColumnCount THEN spans
    ELSE ClearScan(ClearAt(spans, n \div ColumnCount, n % ColumnCount, tr0, tc0, tr1, tc1),
                   n + 1, tr0, tc0, tr1, tc1)

\* a clearing that looks only at the cell the target starts in
clear_overlapping_spans_origin_only(spans, target_row, target_col, target_row_span, target_col_span) ==
    setSpan(spans, target_row, target_col, 1, 1)

clear_overlapping_spans(spans, target_row, target_col, target_row_span, target_col_span) ==
    LET tr1 == Min(RowCount - 1, target_row + Max(1, target_row_span) - 1)
        tc1 == Min(ColumnCount - 1, target_col + Max(1, target_col_span) - 1)
    IN IF target_row < 0 \/ target_col < 0 \/ target_row >= RowCount \/ target_col >= ColumnCount
       THEN spans
       ELSE ClearScan(spans, 0, target_row, target_col, tr1, tc1)

(***************************************************************************)
(* The span steps of a placement.  A single cell clears the span of its    *)
(* own cell, and with span > 1 clears the overlapping spans and sets its   *)
(* span; a dual cell clears the overlapping spans and with span > 1 sets   *)
(* its span.  last.spans is the table, last.target the placement.          *)
(***************************************************************************)
NoTarget == [row |-> 0, col |-> 0, span |-> 1, type |-> ""]

InitSpans ==
    /\ COURSES = [k \in CourseKeys |-> FixedSchedule(k)]
    /\ placed = <<>>
    /\ auto_select_list = <<>>
    /\ last = [op |-> "init", pc |-> "idle", spans |-> {}, target |-> NoTarget]

BeginPlacement(srow, col, span, type) ==
    /\ last.pc = "idle"
    /\ srow + span <= RowCount
    /\ last' = [last EXCEPT !.op = "begin", !.target = [row |-> srow, col |-> col,
                                                        span |-> span, type |-> type],
                            !.pc = IF type = "single" THEN "own" ELSE "overlapping"]
    /\ UNCHANGED <<COURSES, placed, auto_select_list>>

\* "if current_span > 1: setSpan(srow, col, 1, 1)" of a single cell
ClearOwnSpan ==
    /\ last.pc = "own"
    /\ LET t == last.target IN
       last' = [last EXCEPT !.op = "clear_own",
                            !.spans = IF rowSpan(@, t.row, t.col) > 1
                                      THEN setSpan(@, t.row, t.col, 1, 1) ELSE @,
                            !.pc = IF t.span > 1 THEN "overlapping" ELSE "idle"]
    /\ UNCHANGED <<COURSES, placed, auto_select_list>>

ClearOverlappingSpans ==
    /\ last.pc = "overlapping"
    /\ LET t == last.target IN
       last' = [last EXCEPT !.op = "clear_overlapping",
                            !.spans = clear_overlapping_spans(@, t.row, t.col, t.span, 1),
                            !.pc = IF t.span > 1 THEN "set" ELSE "idle"]
    /\ UNCHANGED <<COURSES, placed, auto_select_list>>

SetNewSpan ==
    /\ last.pc = "set"
    /\ LET t == last.target IN
       last' = [last EXCEPT !.op = "set_span",
                            !.spans = setSpan(@, t.row, t.col, t.span, 1),
                            !.pc = "idle"]
    /\ UNCHANGED <<COURSES, placed, auto_select_list>>

\* remove_placed_by_start: setSpan(srow, col, 1, 1) at the origin of an entry
ResetSpan(srow, col) ==
    /\ last.pc = "idle"
    /\ \E sp \in last.spans : sp.row = srow /\ sp.col = col
    /\ last' = [last EXCEPT !.op = "reset", !.spans = setSpan(@, srow, col, 1, 1)]
    /\ UNCHANGED <<COURSES, placed, auto_select_list>>

NextSpans ==
    \/ \E srow \in 0..(RowCount - 1), col \in 0..(ColumnCount - 1),
          span \in 1..RowCount, type \in {"single", "dual"} :
            BeginPlacement(srow, col, span, type)
    \/ ClearOwnSpan
    \/ ClearOverlappingSpans
    \/ SetNewSpan
    \/ \E srow \in 0..(RowCount - 1), col \in 0..(ColumnCount - 1) : ResetSpan(srow, col)

SpecSpans == InitSpans /\ [][NextSpans]_vars

\* the cells of a rectangle, and two rectangles with a common cell
RectCells(r, c, rs, cs) == {<<i, j>> : i \in r..(r + rs - 1), j \in c..(c + cs - 1)}

Intersects(sp, t) ==
    RectCells(sp.row, sp.col, sp.rs, sp.cs) \cap RectCells(t.row, t.col, t.span, 1) # {}

\* C28: the clearing step of a placement collapses every span that
\* intersects the target rectangle and leaves every other span as it was,
\* and a span greater than 1 is set only right after that step
C28_ClearOverlappingSpans ==
    [][/\ last'.op = "clear_overlapping" =>
            /\ \A sp \in last.spans : Intersects(sp, last.target) => sp \notin last'.spans
            /\ \A sp \in last.spans : ~Intersects(sp, last.target) => sp \in last'.spans
            /\ last'.spans \subseteq last.spans
       /\ (last'.op = "set_span" /\ last.target.span > 1) => last.op = "clear_overlapping"]_vars

C28_Witness ==
    /\ last.op = "clear_overlapping"
    /\ last.target.span > 1
    /\ Cardinality(last.spans) = 1
    /\ \E sp \in last.spans : sp.col = last.target.col /\ sp.row + sp.rs = last.target.row

(***************************************************************************)
(* Calls of calculate_empty_time_for_combo on sessions that start and end  *)
(* at minutes 0, 15 and 16 of an hour: A1 has one such session, on any     *)
(* day, and the combination is any list of up to MaxArgs catalog courses.  *)
(***************************************************************************)
GapMinutes == {0, 15, 16}

GapTimeStrings == {<<8 + i, m>> : i \in 0..MaxHour, m \in GapMinutes}

GapSessionPool ==
    {USess(d, iv[1], iv[2], PARITY_NONE) :
        d \in DAYS,
        iv \in {w \in GapTimeStrings \X GapTimeStrings : to_minutes(w[1]) < to_minutes(w[2])}}

GapCatalogs ==
    {[k \in UtilKeys |-> IF k = "A1" THEN <<x>> ELSE UtilFixedSchedule(k)] :
        x \in GapSessionPool}

GapComboKeys == {"A1", "A2", "B1", "C1"}

InitGaps ==
    /\ COURSES \in GapCatalogs
    /\ placed = <<>>
    /\ auto_select_list = <<>>
    /\ \E combo_keys \in SeqsUpTo(GapComboKeys, MaxArgs) :
          last = [op |-> "call", fn |-> "calculate_empty_time_for_combo",
                  combo_keys |-> combo_keys, empty |-> 0]

CallEmptyTime ==
    /\ last.op = "call" /\ last.fn = "calculate_empty_time_for_combo"
    /\ last' = [last EXCEPT !.op = "return",
                            !.empty = calculate_empty_time_for_combo(last.combo_keys)]
    /\ UNCHANGED <<COURSES, placed, auto_select_list>>

NextGaps == CallEmptyTime

SpecGaps == InitGaps /\ [][NextGaps]_vars

\* the sessions of a combination on one day as (start, end) in minutes, in
\* ascending order of start (then end)
SessionsOfDay(combo_keys, day) ==
    LET items == SelectSeq(ItemsOf(combo_keys), LAMBDA item : item.day = day)
        n == Len(items)
        iv(i) == <<items[i].start[1] * 60 + items[i].start[2],
                   items[i].end[1] * 60 + items[i].end[2]>>
        ordered(f) == \A i \in 1..(n - 1) :
                         \/ iv(f[i])[1] < iv(f[i + 1])[1]
                         \/ iv(f[i])[1] = iv(f[i + 1])[1] /\ iv(f[i])[2] <= iv(f[i + 1])[2]
        perm == CHOOSE f \in [1..n -> 1..n] :
                    (\A i, j \in 1..n : i # j => f[i] # f[j]) /\ ordered(f)
    IN [i \in 1..n |-> iv(perm[i])]

RECURSIVE SumOf(_)
SumOf(seq) == IF seq = <<>> THEN 0 ELSE Head(seq) + SumOf(Tail(seq))

\* the idle minutes of the gaps of more than 15 minutes, over all days
IdleMinutes(combo_keys) ==
    SumOf([d \in 1..NumDays |->
              LET sessions == SessionsOfDay(combo_keys, d) IN
              SumOf([i \in 1..(Len(sessions) - 1) |->
                        LET gap == sessions[i + 1][1] - sessions[i][2]
                        IN IF gap > 15 THEN gap ELSE 0])])

EmptyTimeReturned == Returned("calculate_empty_time_for_combo")

C30_CoursePlacedWhole ==
    \A k \in CourseKeys :
        CellsOf(placed, k) # {} => CellsOf(placed, k) = ValidOrigins(k)

\* C31: no two entries of the store in one day column have overlapping row
\* ranges [start row, start row + rows)
C31_SpansDisjoint ==
    \A i, j \in 1..Len(placed) :
        (i # j /\ placed[i].pos[2] = placed[j].pos[2])
            => \/ placed[i].pos[1] + placed[i].rows <= placed[j].pos[1]
               \/ placed[j].pos[1] + placed[j].rows <= placed[i].pos[1]

(***************************************************************************)
(* The debounced queue.  add_course_to_table appends (course_key,          *)
(* ask_on_conflict) to course_addition_queue and restarts the timer; the   *)
(* timer runs _process_course_addition_queue.  last.queue is the queue,    *)
(* last.burst the queue as the last pass found it and last.attempted the   *)
(* items that pass gave to _add_course_internal.                           *)
(***************************************************************************)
MaxQueue == 3

EmptyQueue == [op |-> "init", queue |-> <<>>, burst |-> <<>>, attempted |-> <<>>,
               raised |-> FALSE]

InitQueue ==
    /\ COURSES \in Catalogs
    /\ placed = <<>>
    /\ auto_select_list = <<>>
    /\ last = EmptyQueue

AddCourseToTable(course_key, ask_on_conflict) ==
    /\ Len(last.queue) < MaxQueue
    /\ last' = [EmptyQueue EXCEPT !.op = "enqueue",
                                  !.queue = Append(last.queue,
                                      [key |-> course_key, ask_on_conflict |-> ask_on_conflict,
                                       answer |-> "Yes"])]
    /\ UNCHANGED <<COURSES, placed, auto_select_list>>

\* course_addition_timer.timeout
TimerFires ==
    /\ last.queue # <<>>
    /\ \E r \in ProcessItems(placed, unique_queue(last.queue)) :
          /\ placed' = r.placed
          /\ last' = [op |-> "pass", queue |-> <<>>, burst |-> last.queue,
                      attempted |-> r.attempted, raised |-> r.raised]
    /\ UNCHANGED <<COURSES, auto_select_list>>

NextQueue ==
    \/ \E k \in CourseKeys, ask \in BOOLEAN : AddCourseToTable(k, ask)
    \/ TimerFires

SpecQueue == InitQueue /\ [][NextQueue]_vars

FirstEnqueue(q, k) == CHOOSE i \in 1..Len(q) : q[i].key = k /\ \A j \in 1..(i - 1) : q[j].key # k

LastEnqueue(q, k) ==
    CHOOSE i \in 1..Len(q) : q[i].key = k /\ \A j \in (i + 1)..Len(q) : q[j].key # k

\* C32: a pass empties the queue and attempts every queued key once, in the
\* order of the first enqueue of each key and with the ask_on_conflict flag
\* of its last enqueue
C32_QueuePassOncePerKey ==
    last.op = "pass" =>
        LET q == last.burst
            a == last.attempted
        IN /\ last.queue = <<>>
           /\ \A n \in 1..Len(q) : Cardinality({i \in 1..Len(a) : a[i].key = q[n].key}) = 1
           /\ \A i \in 1..Len(a) :
                 /\ \E n \in 1..Len(q) : q[n].key = a[i].key
                 /\ a[i].ask_on_conflict = q[LastEnqueue(q, a[i].key)].ask_on_conflict
           /\ \A i, j \in 1..Len(a) :
                 i < j => FirstEnqueue(q, a[i].key) < FirstEnqueue(q, a[j].key)


(***************************************************************************)
(* Applying a generated combination (main_window.py apply_optimal_combo).  *)
(* The catalog has the keys of the generator and sessions on the grid: A1  *)
(* has one drawn session, the other schedules are fixed.  The generator is *)
(* called with bounded group lists; one of the combinations it returned is *)
(* then applied: the store is cleared, each course of the combination is   *)
(* queued with ask_on_conflict=False, and the queue timer makes its pass.  *)
(***************************************************************************)
ApplyFixedSchedule(k) ==
    CASE k = "A2" -> <<Sess(2, 1, 2, PARITY_NONE)>>
      [] k = "A3" -> <<Sess(2, 0, 1, PARITY_ODD)>>
      [] k = "B1" -> <<Sess(1, 0, 2, PARITY_ODD), Sess(2, 0, 1, PARITY_NONE)>>
      [] k = "B2" -> <<Sess(1, 0, 2, PARITY_EVEN)>>
      [] k = "C1" -> <<Sess(1, 0, 1, PARITY_EVEN)>>
      [] OTHER -> <<>>

ApplyCatalogs ==
    {[k \in UtilKeys |-> IF k = "A1" THEN <<x>> ELSE ApplyFixedSchedule(k)] :
        x \in SessionPool}

NoCombo == [op |-> "init", combos |-> <<>>, combo |-> <<>>, raised |-> FALSE]

InitApply ==
    /\ COURSES \in ApplyCatalogs
    /\ placed = <<>>
    /\ auto_select_list = <<>>
    /\ last = NoCombo

\* the dialog of the generator: combos of the chosen groups
GenerateOptimal(group_keys) ==
    /\ last.op = "init"
    /\ last' = [op |-> "generate",
                combos |-> generate_best_combinations_for_groups(group_keys),
                combo |-> <<>>, raised |-> FALSE]
    /\ UNCHANGED <<COURSES, placed, auto_select_list>>

\* apply_optimal_combo(combo), followed by the pass of the queue timer
ApplyOptimalCombo(combo) ==
    LET known == SelectSeq(combo.courses, LAMBDA k : k \in DOMAIN COURSES)
        queue == [i \in 1..Len(known) |->
                     [key |-> known[i], ask_on_conflict |-> FALSE, answer |-> "Yes"]]
    IN \E r \in ProcessItems(<<>>, unique_queue(queue)) :
           /\ placed' = r.placed
           /\ last' = [op |-> "apply", combos |-> last.combos,
                       combo |-> combo.courses, raised |-> r.raised]
           /\ UNCHANGED <<COURSES, auto_select_list>>

NextApply ==
    \/ \E group_keys \in SeqsUpTo(GroupNames, MaxArgs) : GenerateOptimal(group_keys)
    \/ \E i \in 1..Len(last.combos) : ApplyOptimalCombo(last.combos[i])

SpecApply == InitApply /\ [][NextApply]_vars

\* C33: after a combination returned by the generator is applied, every
\* course of the combination is on the grid: each of its sessions has a cell
\* that holds the course, and the pass has not raised
C33_CombinationAppliesInFull ==
    last.op = "apply" =>
        /\ ~last.raised
        /\ \A i \in 1..Len(last.combo) :
               LET k == last.combo[i]
               IN \A n \in 1..Len(COURSES[k]) : OriginOf(COURSES[k][n]) \in CellsOf(placed, k)


(***************************************************************************)
(* The priority list alone (main_window.py on_add_to_auto,                 *)
(* on_remove_from_auto, on_auto_list_reordered), with up to MaxList items. *)
(* An item is a course key (UserRole) and a stored rank (UserRole + 1).    *)
(***************************************************************************)
MaxList == 3

InitList ==
    /\ COURSES \in Catalogs
    /\ placed = <<>>
    /\ auto_select_list = <<>>
    /\ last = NoOp

\* on_add_to_auto with one selected course
AddToAuto(course_key) ==
    /\ Len(auto_select_list) < MaxList
    /\ ~InAuto(course_key)
    /\ course_key \in DOMAIN COURSES
    /\ auto_select_list' = Append(auto_select_list,
           [key |-> course_key, priority |-> Len(auto_select_list) + 1])
    /\ last' = [NoOp EXCEPT !.op = "add_to_auto"]
    /\ UNCHANGED <<COURSES, placed>>

\* on_remove_from_auto with one selected item: takeItem(row)
RemoveFromAuto(row) ==
    /\ row \in 1..Len(auto_select_list)
    /\ auto_select_list' = [i \in 1..(Len(auto_select_list) - 1) |->
           IF i < row THEN auto_select_list[i] ELSE auto_select_list[i + 1]]
    /\ last' = [NoOp EXCEPT !.op = "remove_from_auto"]
    /\ UNCHANGED <<COURSES, placed>>

\* the list after the item at row from is dropped at row to
MoveItem(items, from, to) ==
    LET rest == [i \in 1..(Len(items) - 1) |-> IF i < from THEN items[i] ELSE items[i + 1]]
    IN [i \in 1..Len(items) |->
           IF i < to THEN rest[i] ELSE IF i = to THEN items[from] ELSE rest[i - 1]]

\* a drag and drop inside the list, and on_auto_list_reordered after it
AutoListReordered(from, to) ==
    /\ from \in 1..Len(auto_select_list) /\ to \in 1..Len(auto_select_list)
    /\ from # to
    /\ auto_select_list' =
           LET moved == MoveItem(auto_select_list, from, to)
           IN [i \in 1..Len(moved) |-> [moved[i] EXCEPT !.priority = i]]
    /\ last' = [NoOp EXCEPT !.op = "reordered"]
    /\ UNCHANGED <<COURSES, placed>>

NextList ==
    \/ \E k \in CourseKeys : AddToAuto(k)
    \/ \E row \in 1..MaxList : RemoveFromAuto(row)
    \/ \E from \in 1..MaxList, to \in 1..MaxList : AutoListReordered(from, to)

SpecList == InitList /\ [][NextList]_vars

\* C37: the stored rank of every item of the priority list is its position
\* plus one (positions from 0), so that the ranks are distinct and
\* get_course_priority orders two listed courses as their positions do
C37_RankIsPosition ==
    /\ \A i \in 1..Len(auto_select_list) : auto_select_list[i].priority = (i - 1) + 1
    /\ \A i, j \in 1..Len(auto_select_list) :
           i < j => get_course_priority(auto_select_list[i].key)
                        < get_course_priority(auto_select_list[j].key)


(***************************************************************************)
(* The pass of the addition queue and the event loops nested in it         *)
(* (main_window.py _process_course_addition_queue, on_course_clicked).     *)
(* last.pc is the position of the running pass: "idle" (no pass, the main  *)
(* event loop), "loop" (between two items), "dialog" (the confirmation     *)
(* dialog of the current item is open: a modal event loop, which delivers  *)
(* timer events but no click on the course list), "events" (the            *)
(* processEvents() that ends _add_course_internal, which delivers clicks   *)
(* and the timer events that are due) and "blocked" (QMutexLocker waits    *)
(* for a mutex its own thread holds).  last.timer is                       *)
(* course_addition_timer.isActive(); last.fresh says that the timer was    *)
(* started inside the processEvents() call that is still running.          *)
(***************************************************************************)
NoPass == [op |-> "init", pc |-> "idle", queue |-> <<>>, timer |-> FALSE, fresh |-> FALSE,
           items |-> <<>>, key |-> "", course_addition_mutex |-> FALSE,
           dual_operation_mutex |-> FALSE]

InitMutex ==
    /\ COURSES \in Catalogs
    /\ placed = <<>>
    /\ auto_select_list = <<>>
    /\ last = NoPass

\* on_course_clicked: append (key, True), restart the single-shot timer
OnCourseClicked(course_key) ==
    /\ last.pc \in {"idle", "events"}
    /\ Len(last.queue) < MaxQueue
    /\ last' = [last EXCEPT !.op = "click",
                            !.queue = Append(@, [key |-> course_key, ask_on_conflict |-> TRUE]),
                            !.timer = TRUE,
                            !.fresh = (last.pc = "events")]
    /\ UNCHANGED <<COURSES, placed, auto_select_list>>

\* the locks of the running pass are released (del dual_locker, del locker)
Released(l) ==
    [l EXCEPT !.pc = "idle", !.items = <<>>, !.key = "",
              !.course_addition_mutex = FALSE, !.dual_operation_mutex = FALSE]

\* timeout of course_addition_timer: _process_course_addition_queue up to its
\* loop, or to the QMutexLocker that cannot get the mutex
ProcessQueueEntered ==
    /\ last.timer
    /\ \/ last.pc \in {"idle", "dialog"}
       \/ last.pc = "events" /\ ~last.fresh
    /\ last' = IF last.course_addition_mutex
               THEN [last EXCEPT !.op = "timeout", !.timer = FALSE, !.pc = "blocked"]
               ELSE [last EXCEPT !.op = "timeout", !.timer = FALSE, !.pc = "loop",
                                 !.course_addition_mutex = TRUE,
                                 !.items = unique_queue(last.queue), !.queue = <<>>]
    /\ UNCHANGED <<COURSES, placed, auto_select_list>>

\* one turn of "for course_key, ask_on_conflict in unique_queue", up to the
\* first nested event loop of _add_course_internal or to its return; after
\* the last item, update_user_data and the release of the mutex
NextQueued ==
    /\ last.pc = "loop"
    /\ IF last.items = <<>>
       THEN /\ last' = [Released(last) EXCEPT !.op = "done"]
            /\ placed' = placed
       ELSE LET it == Head(last.items)
                r == add_course_internal(placed, it.key, it.ask_on_conflict, "No", <<>>)
                l == [last EXCEPT !.op = "item", !.items = Tail(@), !.key = it.key]
            IN CASE r.outcome = "declined" ->
                        /\ last' = [l EXCEPT !.pc = "dialog", !.dual_operation_mutex = TRUE]
                        /\ placed' = placed
                 [] r.outcome = "placed" ->
                        /\ last' = [l EXCEPT !.pc = "events", !.fresh = FALSE,
                                             !.dual_operation_mutex = TRUE]
                        /\ placed' = r.placed
                 [] r.outcome = "failed" ->
                        /\ last' = [Released(l) EXCEPT !.op = "raised"]
                        /\ placed' = r.placed
                 [] OTHER ->
                        /\ last' = l
                        /\ placed' = placed
    /\ UNCHANGED <<COURSES, auto_select_list>>

\* the confirmation dialog returns: No ends the addition, Yes evicts the
\* conflicting courses and writes the cells, up to the last processEvents()
DialogReturns(answer) ==
    /\ last.pc = "dialog"
    /\ IF answer # "Yes"
       THEN /\ last' = [last EXCEPT !.op = "declined", !.pc = "loop",
                                    !.dual_operation_mutex = FALSE]
            /\ placed' = placed
       ELSE \E order \in Orders(conflicting_courses(Analyse(placed, last.key).conflicts)) :
               LET r == add_course_internal(placed, last.key, TRUE, "Yes", order) IN
               /\ placed' = r.placed
               /\ last' = IF r.outcome = "failed"
                          THEN [Released(last) EXCEPT !.op = "raised"]
                          ELSE [last EXCEPT !.op = "confirmed", !.pc = "events",
                                            !.fresh = FALSE]
    /\ UNCHANGED <<COURSES, auto_select_list>>

\* processEvents() returns, and with it _add_course_internal
EventsReturn ==
    /\ last.pc = "events"
    /\ last' = [last EXCEPT !.op = "events_done", !.pc = "loop", !.fresh = FALSE,
                            !.dual_operation_mutex = FALSE]
    /\ UNCHANGED <<COURSES, placed, auto_select_list>>

NextMutex ==
    \/ \E k \in CourseKeys : OnCourseClicked(k)
    \/ ProcessQueueEntered
    \/ NextQueued
    \/ \E answer \in {"Yes", "No"} : DialogReturns(answer)
    \/ EventsReturn

SpecMutex == InitMutex /\ [][NextMutex]_vars

\* C38: _process_course_addition_queue is never entered while an earlier
\* invocation holds course_addition_mutex, and with no pass running both
\* mutexes are free
C38_QueuePassNeverBlocks ==
    /\ last.pc # "blocked"
    /\ last.pc = "idle" => ~last.course_addition_mutex /\ ~last.dual_operation_mutex

====
